---- MODULE Spec2Model ----
(***************************************************************************)
(* Sensocto client messaging substrate.                                    *)
(*                                                                         *)
(* Two implementations live in the repository and both are modelled:       *)
(*   - the SDK: PhoenixSocket (clients/python/sensocto/socket.py) with a   *)
(*     SensorStream on top of it (clients/python/sensocto/sensor.py);      *)
(*     specification Spec;                                                 *)
(*   - the simulator client PhoenixChannelClient                           *)
(*     (simulator/python_phoenix_client.py); specification SpecSim.        *)
(*                                                                         *)
(* asyncio is cooperative: a coroutine runs without interruption up to its *)
(* next await that really suspends.  Every action below is one such run.   *)
(* The awaits that suspend are the lock acquisitions when contended, the   *)
(* WebSocket send, wait_for on a reply future and the sleeps.              *)
(***************************************************************************)
EXTENDS Integers, Sequences, FiniteSets, TLC

\* ------------------------------------------------------------ bounds
MaxRef == 3        \* calls that allocate a ref start only below this counter value
MaxMeas == 3       \* measurements enqueued in one behaviour

\* ------------------------------------------------------------ constants
Tasks == {"u1", "u2"}          \* user tasks calling into the library
HB == "hb"                     \* the heartbeat task of the socket
NoTask == "none"
StreamTopic == "sensocto:sensor:s1"
OtherTopic == "call:r1"
Timeouts == {1, 10}            \* timeout argument of send, in seconds
DefaultTimeout == 10

\* ------------------------------------------------------------ SDK state
VARIABLES
    impl,             \* which client runs in this behaviour: "sdk" or "sim"
    ws,               \* PhoenixSocket._ws / PhoenixChannelClient.ws:
                      \* "none" (None), "open", "closed"
    connected,        \* PhoenixSocket._connected / PhoenixChannelClient.connected
    ref_counter,      \* PhoenixSocket._ref_counter
    pending_replies,  \* PhoenixSocket._pending_replies: ref -> future state
    lock,             \* PhoenixSocket._lock / PhoenixChannelClient.lock (asyncio.Lock)
    receive_task,     \* PhoenixSocket._receive_task
    heartbeat_task,   \* PhoenixSocket._heartbeat_task
    hb_ref,           \* ref of the heartbeat being written
    disc,             \* position of a running PhoenixSocket.disconnect()
    joined,           \* SensorStream._joined
    batch_buffer,     \* SensorStream._batch_buffer
    batch_lock,       \* SensorStream._batch_lock
    backpressure,     \* SensorStream._backpressure
    observer,         \* SensorStream._on_backpressure and what it was called with
    session,          \* CallSession: _joined, _in_call, _endpoint_id
    facade,           \* SensoctoClient: _state, _connector_joined
    event_handlers,   \* PhoenixSocket._event_handlers: key -> handlers, in order
    delivered,        \* the handlers invoked for the last inbound event, in order
    channels,         \* PhoenixChannelClient.channels: topic and join params, in
                      \* insertion order
    receiving_task,   \* PhoenixChannelClient.receiving_task
    backpressure_configs, \* PhoenixChannelClient.backpressure_configs
    message_queues,   \* PhoenixChannelClient.message_queues
    batch_tasks,      \* PhoenixChannelClient.batch_tasks: topic -> last timer task
    timers,           \* the timer tasks that are not done, by task name
    jobs,             \* the push() and _join_channel() calls in progress, by caller
    conn,             \* position of a running PhoenixChannelClient.connect()
    closer,           \* position of a running PhoenixChannelClient.close()
    sim_time,         \* the last reading of time.time()
    connects,         \* number of connections opened so far; the current
                      \* WebSocket object is the one numbered `connects`
    pc,               \* position of each user task inside its call
    call,             \* the call each user task is in, and the latest result
    wire,             \* frames handed to the WebSocket, in write order
    enq,              \* number of measurements appended to a buffer so far
    awaiters,         \* history: ref -> number of futures registered under it
    resolved          \* history: ref -> what resolved its future, in order

\* the call session, the facade and the event dispatch of the SDK
dispatchVars == <<event_handlers, delivered>>
moreVars == <<session, facade, dispatchVars>>

sdkVars == <<ws, connected, ref_counter, pending_replies, lock, receive_task,
             heartbeat_task, hb_ref, disc, joined, batch_buffer, batch_lock,
             backpressure, observer, moreVars>>
envVars == <<pc, call, wire, enq, awaiters, resolved>>
\* impl never changes: both tuples of one-sided variables carry it
simVars == <<impl, channels, receiving_task, backpressure_configs, message_queues,
             batch_tasks, timers, jobs, conn, closer, sim_time, connects>>
vars == <<sdkVars, simVars, envVars>>

\* ------------------------------------------------------------ helpers
\* str(n): the decimal representation, as the sequence of its digits.
RECURSIVE Str(_)
Str(n) == IF n < 10 THEN <<n>> ELSE Str(n \div 10) \o <<n % 10>>

NullRef == <<>>

EmptyMap == [r \in {} |-> 0]
Put(f, k, v) == [x \in DOMAIN f \cup {k} |-> IF x = k THEN v ELSE f[x]]
Pop(f, k) == [x \in DOMAIN f \ {k} |-> f[x]]
Count(f, k) == IF k \in DOMAIN f THEN f[k] ELSE 0
Inc(f, k) == Put(f, k, Count(f, k) + 1)
Causes(f, k) == IF k \in DOMAIN f THEN f[k] ELSE <<>>
Resolve(f, k, cause) == Put(f, k, Append(Causes(f, k), cause))

RECURSIVE Without(_, _)
Without(s, x) ==
    IF s = <<>> THEN <<>>
    ELSE IF Head(s) = x THEN Without(Tail(s), x)
    ELSE <<Head(s)>> \o Without(Tail(s), x)

\* asyncio.Lock: acquire takes a free lock at once, otherwise queues FIFO;
\* release wakes the first waiter, before which no newcomer can take it.
FreeLock == [holder |-> NoTask, waiters |-> <<>>]
Acquire(l, t) ==
    IF l.holder = NoTask /\ l.waiters = <<>>
    THEN [l EXCEPT !.holder = t]
    ELSE [l EXCEPT !.waiters = Append(@, t)]
Release(l) ==
    IF l.waiters = <<>> THEN FreeLock
    ELSE [holder |-> Head(l.waiters), waiters |-> Tail(l.waiters)]
\* a cancelled task leaves the lock: releases it when holding, else stops waiting
Abandon(l, t) ==
    IF l.holder = t THEN Release(l) ELSE [l EXCEPT !.waiters = Without(@, t)]

NoCall == [op |-> "none", topic |-> "", event |-> "", payload |-> <<>>,
           array |-> FALSE, ref |-> NullRef, timeout |-> 0, outcome |-> "none",
           err_ms |-> 0, thr |-> 0, reached |-> FALSE, attribute_id |-> <<>>,
           flushed |-> <<>>]

\* the call of task t returns or raises: the task is in no call, and what the
\* call came to is kept as the latest result until the next call ends
LAST == "last"
Done(t, outcome, err_ms) ==
    [call EXCEPT ![t] = NoCall,
                 ![LAST] = [NoCall EXCEPT !.outcome = outcome, !.err_ms = err_ms]]

\* A frame on the wire.  payload lists the measurements the frame carries (the
\* SDK's with enqueue number and attribute id, the simulator's by enqueue number;
\* number 0 is a measurement that never was in a buffer); array tells a
\* JSON array of measurements from a single measurement object; via names the
\* code path that wrote the frame and conn numbers the connection it went to.
Frame(topic, event, payload, array, ref, via, c) ==
    [topic |-> topic, event |-> event, payload |-> payload, array |-> array,
     ref |-> ref, via |-> via, conn |-> c]


\* CallSession.__init__ lines 50-52; endpoint_id "" stands for None
NoSession == [joined |-> FALSE, in_call |-> FALSE, endpoint_id |-> ""]

\* SensoctoClient.__init__ lines 69-70
NewFacade == [state |-> "disconnected", connector_joined |-> FALSE]

\* ------------------------------------------------------------ PhoenixSocket
\* PhoenixSocket._generate_ref: the counter after the increment
generate_ref(c) == c + 1

\* PhoenixSocket.is_connected
is_connected == connected /\ ws # "none"

TimeoutSeconds(timeout) == timeout

\* TimeoutError(int(timeout * 1000))
TimeoutMs(timeout) == timeout * 1000

FutureRegistered(ref) == ref \in DOMAIN pending_replies

\* _handle_message: `future and not future.done()`
FutureWaiting(ref) == ref \in DOMAIN pending_replies /\ pending_replies[ref] = "pending"

ReplyStatusOk(payload) == "ok"

\* PhoenixReply.status for a reply payload: payload.get("status", "error")
ReplyStatus(payload) == IF payload = "ok" THEN "ok" ELSE "error"

\* PhoenixSocket.connect
Connect(ok) ==
    /\ ws = "none" /\ receive_task = "none" /\ disc = "idle"
    /\ IF ok
       THEN /\ ws' = "open"
            /\ connected' = TRUE
            /\ receive_task' = "running"
            /\ heartbeat_task' = "sleep"
       ELSE UNCHANGED <<ws, connected, receive_task, heartbeat_task>>
    /\ UNCHANGED <<ref_counter, pending_replies, lock, hb_ref, disc, joined,
                   batch_buffer, batch_lock, backpressure, observer, moreVars, simVars, envVars>>

\* PhoenixSocket.send up to the await of the WebSocket send (lines 158-173, 236-241)
StartRequest(t, op, topic, event, timeout) ==
    /\ pc[t] = "idle"
    /\ LET n == generate_ref(ref_counter)
           ref == Str(n)
           c == [NoCall EXCEPT !.op = op, !.topic = topic, !.event = event,
                               !.ref = ref, !.timeout = timeout]
       IN /\ ref_counter' = n
          /\ awaiters' = Inc(awaiters, ref)
          /\ IF ws = "none"
             THEN \* _send_raw raises ConnectionError; finally pops the ref
                  /\ pending_replies' = Pop(pending_replies, ref)
                  /\ call' = Done(t, "ConnectionError", 0)
                  /\ UNCHANGED <<lock, pc>>
             ELSE /\ pending_replies' = Put(pending_replies, ref, "pending")
                  /\ lock' = Acquire(lock, t)
                  /\ pc' = [pc EXCEPT ![t] = "send_raw"]
                  /\ call' = [call EXCEPT ![t] = c]
    /\ UNCHANGED <<ws, connected, receive_task, heartbeat_task, hb_ref, disc, joined,
                   batch_buffer, batch_lock, backpressure, observer, moreVars, simVars, wire, enq, resolved>>

\* a request of a behaviour that has refs left
StartSend(t, op, topic, event, timeout) ==
    ref_counter < MaxRef /\ StartRequest(t, op, topic, event, timeout)

Send(t) ==
    \E timeout \in Timeouts : StartSend(t, "send", OtherTopic, "request", timeout)

\* PhoenixSocket.send_no_reply up to the await of the WebSocket send
SendNoReply(t) ==
    /\ pc[t] = "idle" /\ ref_counter < MaxRef
    /\ LET n == generate_ref(ref_counter)
           c == [NoCall EXCEPT !.op = "send_no_reply", !.topic = OtherTopic,
                               !.event = "media_event", !.ref = Str(n)]
       IN /\ ref_counter' = n
          /\ IF ws = "none"
             THEN /\ call' = Done(t, "ConnectionError", 0)
                  /\ UNCHANGED <<lock, pc>>
             ELSE /\ lock' = Acquire(lock, t)
                  /\ pc' = [pc EXCEPT ![t] = "send_raw"]
                  /\ call' = [call EXCEPT ![t] = c]
    /\ UNCHANGED <<ws, connected, pending_replies, receive_task, heartbeat_task, hb_ref,
                   disc, joined, batch_buffer, batch_lock, backpressure, observer, moreVars, simVars, wire,
                   enq, awaiters, resolved>>

\* the frame a call writes; a PhoenixSocket has one connection in its life
CallFrame(c) == Frame(c.topic, c.event, c.payload, c.array, c.ref, c.op, 1)

\* the calls of CallSession and SensoctoClient that go through socket.send
SessionRequests ==
    {"join_channel", "join_call", "leave_call", "control", "close_leave_call",
     "close_leave_channel", "leave_channel"}
IsRequest(c) ==
    c.op \in {"send", "join", "phx_leave", "connector_join"} \cup SessionRequests

\* SensoctoClient.connect lines 132-134: an exception of the connector join
\* leaves the facade in ERROR
FacadeAfterError(c) ==
    IF c.op = "connector_join" THEN [facade EXCEPT !.state = "error"] ELSE facade

\* _join_connector_channel lines 242-246
FacadeAfterReply(c, status) ==
    IF c.op = "connector_join" /\ status = "ok"
    THEN [facade EXCEPT !.connector_joined = TRUE]
    ELSE facade

\* join_call line 139: reply.response.get("endpoint_id") of an ok reply
EndpointId == "e1"

\* CallSession.join_channel lines 106-108, join_call lines 137-139 and
\* leave_call lines 152-153: the session after the reply
SessionAfterReply(c, status) ==
    IF c.op = "join_channel" /\ status = "ok" THEN [session EXCEPT !.joined = TRUE]
    ELSE IF c.op = "join_call" /\ status = "ok"
    THEN [session EXCEPT !.in_call = TRUE, !.endpoint_id = EndpointId]
    ELSE IF c.op \in {"leave_call", "close_leave_call"}
    THEN [session EXCEPT !.in_call = FALSE, !.endpoint_id = ""]
    ELSE IF c.op \in {"leave_channel", "close_leave_channel"}    \* line 123
    THEN [session EXCEPT !.joined = FALSE]
    ELSE session

\* CallSession.leave_channel line 122, socket.send up to the await of the
\* WebSocket send: the phx_leave request of task t, pending being the reply
\* registry as the call before it leaves it
ChannelLeaveRequest(t, pending) ==
    LET n == generate_ref(ref_counter)
        ref == Str(n)
    IN /\ ref_counter' = n
       /\ awaiters' = Inc(awaiters, ref)
       /\ IF ws = "none"
          THEN /\ pending_replies' = pending
               /\ call' = Done(t, "ConnectionError", 0)
               /\ pc' = [pc EXCEPT ![t] = "idle"]
               /\ UNCHANGED lock
          ELSE /\ pending_replies' = Put(pending, ref, "pending")
               /\ lock' = Acquire(lock, t)
               /\ pc' = [pc EXCEPT ![t] = "send_raw"]
               /\ call' = [call EXCEPT ![t] =
                      [NoCall EXCEPT !.op = "close_leave_channel", !.topic = OtherTopic,
                                     !.event = "phx_leave", !.ref = ref,
                                     !.timeout = DefaultTimeout]]
IsBatchOp(c) == c.op \in {"add_to_batch", "flush_batch", "leave"}

\* SensorStream.leave line 117, socket.send up to the await of the WebSocket
\* send: the phx_leave request of task t, the socket lock being l and flushed
\* the measurements that the flush of this leave has written
LeaveRequest(t, l, flushed) ==
    LET n == generate_ref(ref_counter)
        ref == Str(n)
    IN /\ ref_counter' = n
       /\ awaiters' = Inc(awaiters, ref)
       /\ IF ws = "none"
          THEN /\ pending_replies' = Pop(pending_replies, ref)
               /\ call' = Done(t, "ConnectionError", 0)
               /\ pc' = [pc EXCEPT ![t] = "idle"]
               /\ lock' = l
          ELSE /\ pending_replies' = Put(pending_replies, ref, "pending")
               /\ lock' = Acquire(l, t)
               /\ pc' = [pc EXCEPT ![t] = "send_raw"]
               /\ call' = [call EXCEPT ![t] =
                      [NoCall EXCEPT !.op = "phx_leave", !.topic = StreamTopic,
                                     !.event = "phx_leave", !.ref = ref,
                                     !.timeout = DefaultTimeout,
                                     !.flushed = flushed]]

\* _send_raw line 242: the WebSocket send completes, or raises on a connection
\* that is closed (or gone), under the socket lock; then the caller goes on.
WsSend(t) ==
    /\ pc[t] = "send_raw" /\ lock.holder = t
    /\ LET c == call[t] IN
       IF ws = "open"
       THEN /\ wire' = Append(wire, CallFrame(c))
            /\ IF c.op = "leave"
               THEN \* leave lines 115-117: flush_batch has returned, phx_leave follows
                    /\ batch_lock' = Release(batch_lock)
                    /\ LeaveRequest(t, Release(lock), c.payload)
               ELSE /\ lock' = Release(lock)
                    /\ IF IsRequest(c)
                       THEN /\ pc' = [pc EXCEPT ![t] = "awaiting"]
                            /\ UNCHANGED <<call, batch_lock>>
                       ELSE /\ pc' = [pc EXCEPT ![t] = "idle"]
                            /\ call' = Done(t, "ok", 0)
                            /\ batch_lock' = IF IsBatchOp(c) THEN Release(batch_lock)
                                              ELSE batch_lock
                    /\ UNCHANGED <<pending_replies, ref_counter, awaiters>>
       ELSE /\ lock' = Release(lock)
            /\ pc' = [pc EXCEPT ![t] = "idle"]
            /\ call' = Done(t, "ConnectionClosed", 0)
            /\ pending_replies' = IF IsRequest(c) THEN Pop(pending_replies, c.ref)
                                  ELSE pending_replies
            /\ batch_lock' = IF IsBatchOp(c) THEN Release(batch_lock) ELSE batch_lock
            /\ UNCHANGED <<wire, ref_counter, awaiters>>
    /\ facade' = IF ws = "open" THEN facade ELSE FacadeAfterError(call[t])
    /\ UNCHANGED <<ws, connected, receive_task, heartbeat_task, hb_ref, disc, joined,
                   batch_buffer, backpressure, observer, session, dispatchVars, simVars,
                   enq, resolved>>

\* SensorStream.join line 107: what a join raises on a reply that is not ok
JoinFailure == "Exception"

\* what the caller of send does with the reply: PhoenixSocket.send returns the
\* PhoenixReply; SensorStream.join (lines 102-107) returns the response of an
\* ok reply and raises on any other
Returned(c, status) ==
    IF c.op = "join" THEN (IF status = "ok" THEN "ok" ELSE JoinFailure)
    ELSE IF c.op = "phx_leave" THEN "ok"      \* leave line 117: the reply is dropped
    ELSE IF c.op = "join_channel"             \* call.py lines 106-112
    THEN (IF status = "ok" THEN "ok" ELSE "SensoctoError(Failed to join channel)")
    ELSE IF c.op = "join_call"                \* call.py lines 137-144
    THEN (IF status = "ok" THEN "ok" ELSE "SensoctoError(Failed to join call)")
    ELSE IF c.op \in {"leave_call", "control", "connector_join", "leave_channel",
                      "close_leave_channel"}
    THEN "ok"                                 \* the reply is dropped or only logged
    ELSE "reply_" \o status

\* send lines 177-182 and SensorStream.join lines 102-107: the future has a
\* result, wait_for returns it, finally pops the ref
SendReturn(t) ==
    /\ pc[t] = "awaiting"
    /\ call[t].ref \in DOMAIN pending_replies
    /\ pending_replies[call[t].ref] # "pending"
    /\ LET status == pending_replies[call[t].ref] IN
       /\ joined' = IF call[t].op = "join" /\ status = "ok" THEN TRUE
                     ELSE IF call[t].op = "phx_leave" THEN FALSE      \* leave line 118
                     ELSE joined
       /\ session' = SessionAfterReply(call[t], status)
       /\ facade' = FacadeAfterReply(call[t], status)
       /\ IF call[t].op = "close_leave_call"
          THEN \* leave_channel lines 119-122: leave_call has returned, phx_leave
               \* follows
               ChannelLeaveRequest(t, Pop(pending_replies, call[t].ref))
          ELSE /\ call' = Done(t, Returned(call[t], status), 0)
               /\ pending_replies' = Pop(pending_replies, call[t].ref)
               /\ pc' = [pc EXCEPT ![t] = "idle"]
               /\ UNCHANGED <<ref_counter, lock, awaiters>>
    /\ UNCHANGED <<ws, connected, receive_task, heartbeat_task, hb_ref, disc,
                   batch_buffer, batch_lock, backpressure, observer, dispatchVars,
                   simVars, wire, enq, resolved>>

\* send lines 179-182: the deadline passes with the future still pending;
\* wait_for cancels it and TimeoutError(int(timeout * 1000)) is raised
SendTimeout(t) ==
    /\ pc[t] = "awaiting"
    /\ call[t].ref \in DOMAIN pending_replies
    /\ pending_replies[call[t].ref] = "pending"
    /\ call' = Done(t, "TimeoutError", TimeoutMs(call[t].timeout))
    /\ pending_replies' = Pop(pending_replies, call[t].ref)
    /\ resolved' = Resolve(resolved, call[t].ref, "timeout")
    /\ pc' = [pc EXCEPT ![t] = "idle"]
    /\ facade' = FacadeAfterError(call[t])
    /\ UNCHANGED <<ws, connected, ref_counter, lock, receive_task, heartbeat_task, hb_ref,
                   disc, joined, batch_buffer, batch_lock, backpressure, observer, session,
                   dispatchVars, simVars, wire, enq, awaiters>>

\* ------------------------------------------------------------ SensoctoClient
\* SensoctoConfig.auto_join_connector
auto_join_connector == TRUE

ConnectorTopic == "sensocto:connector:c1"

\* the socket as PhoenixSocket.__init__ leaves it
Pristine == ws = "none" /\ receive_task = "none" /\ disc = "idle"

\* SensoctoClient.connect lines 110-123, up to the await of the handshake
ClientConnect(t) ==
    /\ pc[t] = "idle" /\ Pristine
    /\ \A u \in Tasks : pc[u] # "connecting"
    /\ facade' = [facade EXCEPT !.state = "connecting"]
    /\ pc' = [pc EXCEPT ![t] = "connecting"]
    /\ call' = [call EXCEPT ![t] = [NoCall EXCEPT !.op = "connect"]]
    /\ UNCHANGED <<ws, connected, ref_counter, pending_replies, lock, receive_task,
                   heartbeat_task, hb_ref, disc, joined, batch_buffer, batch_lock,
                   backpressure, observer, session, dispatchVars, simVars, wire, enq,
                   awaiters, resolved>>

\* SensoctoClient.connect lines 123-134 with PhoenixSocket.connect and
\* _join_connector_channel lines 226-240: the handshake ends; after a good one
\* the connector channel is joined, up to the await of the WebSocket send
ClientConnectEnd(t, ok) ==
    /\ pc[t] = "connecting"
    /\ IF ok
       THEN /\ ws' = "open"
            /\ connected' = TRUE
            /\ receive_task' = "running"
            /\ heartbeat_task' = "sleep"
            /\ facade' = [facade EXCEPT !.state = "connected"]
            /\ IF auto_join_connector
               THEN LET n == generate_ref(ref_counter)
                        ref == Str(n)
                    IN /\ ref_counter' = n
                       /\ awaiters' = Inc(awaiters, ref)
                       /\ pending_replies' = Put(pending_replies, ref, "pending")
                       /\ lock' = Acquire(lock, t)
                       /\ pc' = [pc EXCEPT ![t] = "send_raw"]
                       /\ call' = [call EXCEPT ![t] =
                              [NoCall EXCEPT !.op = "connector_join",
                                             !.topic = ConnectorTopic,
                                             !.event = "phx_join", !.ref = ref,
                                             !.timeout = DefaultTimeout]]
               ELSE /\ pc' = [pc EXCEPT ![t] = "idle"]
                    /\ call' = Done(t, "ok", 0)
                    /\ UNCHANGED <<ref_counter, awaiters, pending_replies, lock>>
       ELSE /\ facade' = [facade EXCEPT !.state = "error"]
            /\ pc' = [pc EXCEPT ![t] = "idle"]
            /\ call' = Done(t, "ConnectionError", 0)
            /\ UNCHANGED <<ws, connected, receive_task, heartbeat_task, ref_counter,
                           awaiters, pending_replies, lock>>
    /\ UNCHANGED <<hb_ref, disc, joined, batch_buffer, batch_lock, backpressure,
                   observer, session, dispatchVars, simVars, wire, enq, resolved>>

\* SensoctoClient.disconnect lines 136-144 on a facade whose socket never was
\* connected: PhoenixSocket.disconnect finds nothing to stop
ClientDisconnect ==
    /\ Pristine /\ facade.state = "error"
    /\ \A u \in Tasks : pc[u] # "connecting"
    /\ facade' = NewFacade
    /\ UNCHANGED <<ws, connected, ref_counter, pending_replies, lock, receive_task,
                   heartbeat_task, hb_ref, disc, joined, batch_buffer, batch_lock,
                   backpressure, observer, session, dispatchVars, simVars, envVars>>

\* ------------------------------------------------------------ CallSession
\* a call that fails before it does anything
Rejected(t, error) ==
    /\ call' = Done(t, error, 0)
    /\ UNCHANGED <<sdkVars, simVars, pc, wire, enq, awaiters, resolved>>

AlwaysInCall == TRUE

\* CallSession.in_call, the guard of lines 163, 175, 187 and 199
InCall == session.in_call

\* CallSession.join_channel lines 92-112 up to the WebSocket send
JoinChannel(t) ==
    ~session.joined /\ StartSend(t, "join_channel", OtherTopic, "phx_join", DefaultTimeout)

\* CallSession.join_call lines 126-144 up to the WebSocket send
JoinCall(t) ==
    /\ pc[t] = "idle" /\ ref_counter < MaxRef
    /\ IF ~session.joined THEN Rejected(t, "SensoctoError(Channel not joined)")
       ELSE StartSend(t, "join_call", OtherTopic, "join_call", DefaultTimeout)

\* CallSession.leave_call lines 146-154 up to the WebSocket send
LeaveCall(t) ==
    /\ pc[t] = "idle" /\ ref_counter < MaxRef
    /\ IF ~session.in_call THEN Rejected(t, "ok")
       ELSE StartSend(t, "leave_call", OtherTopic, "leave_call", DefaultTimeout)

\* CallSession.leave_channel lines 114-124 (close, lines 292-294, is
\* leave_channel), up to the WebSocket send of leave_call or of phx_leave
LeaveChannel(t) ==
    /\ pc[t] = "idle" /\ ref_counter <= MaxRef
    /\ IF ~session.joined THEN Rejected(t, "not_joined")
       ELSE IF session.in_call
       THEN StartRequest(t, "close_leave_call", OtherTopic, "leave_call", DefaultTimeout)
       ELSE StartRequest(t, "leave_channel", OtherTopic, "phx_leave", DefaultTimeout)

\* the events of toggle_audio, toggle_video and set_quality
ControlEvents == {"toggle_audio", "toggle_video", "set_quality"}

\* toggle_audio lines 168-178, toggle_video lines 180-190, set_quality lines
\* 192-202, up to the WebSocket send
Control(t, event) ==
    /\ pc[t] = "idle" /\ ref_counter < MaxRef
    /\ IF ~InCall THEN Rejected(t, "SensoctoError(Not in call)")
       ELSE StartSend(t, "control", OtherTopic, event, DefaultTimeout)

\* CallSession.send_media_event lines 156-166 with send_no_reply, up to the
\* WebSocket send
SendMediaEvent(t) ==
    /\ pc[t] = "idle" /\ ref_counter < MaxRef
    /\ IF ~InCall THEN Rejected(t, "SensoctoError(Not in call)")
       ELSE SendNoReply(t)

\* ------------------------------------------------------------ SensorStream
\* An attribute id is a string: the sequence of its characters.
LF == "LF"                        \* the newline character
Letters == {"t", "Z"}             \* [a-zA-Z]
Digits == {"1"}                   \* [0-9]
IdChars == Letters \cup Digits \cup {"_", "-"}     \* [a-zA-Z0-9_-]
MaxIdLength == 64

\* the strings made of a letter and up to 63 characters of [a-zA-Z0-9_-]
IdBody(s) ==
    /\ Len(s) \in 1..MaxIdLength
    /\ s[1] \in Letters
    /\ \A i \in 2..Len(s) : s[i] \in IdChars

\* ATTRIBUTE_ID_PATTERN.match(s), line 17: in Python `$` matches at the end of
\* the string and also just before a newline that ends the string
PatternMatch(s) ==
    \/ IdBody(s)
    \/ Len(s) >= 2 /\ s[Len(s)] = LF /\ IdBody(SubSeq(s, 1, Len(s) - 1))

\* validate_attribute_id lines 20-31: TRUE when it returns, FALSE when it raises
validate_attribute_id(attribute_id) ==
    /\ attribute_id # <<>>
    /\ Len(attribute_id) <= MaxIdLength
    /\ PatternMatch(attribute_id)

\* Measurement: n numbers the enqueue (0: never in a buffer)
Measurement(n, attribute_id) == [n |-> n, attribute_id |-> attribute_id]

\* attribute ids the callers pass: "t1" and "1"
StreamIds == {<<"t", "1">>, <<"1">>}

\* more of them: "", "Z_-", "t 1", "t1" with a newline after it, a newline
\* alone, "t" with a newline inside
AttributeIds ==
    StreamIds \cup {<<>>, <<"Z", "_", "-">>, <<"t", " ", "1">>, <<"t", "1", LF>>,
                    <<LF>>, <<"t", LF, "1">>}
\* SensorStream.is_active
is_active == joined /\ is_connected

\* SensorStream.join: a phx_join request on the stream's topic
Join(t) == ~joined /\ StartSend(t, "join", StreamTopic, "phx_join", DefaultTimeout)

\* add_to_batch line 186: the flush threshold
ThresholdReached(len, batch_size) == len >= batch_size

\* _flush_batch_internal line 211: the event a flushed batch is sent under
FlushEvent(measurements) == "measurements_batch"

\* the batch lock held by t, with whoever queued behind it
Held(t) == [holder |-> t, waiters |-> batch_lock.waiters]

BatchLockFree == batch_lock.holder = NoTask /\ batch_lock.waiters = <<>>

\* _flush_batch_internal lines 199-211 on a non-empty buffer, then send_no_reply
\* up to the await of the WebSocket send; t holds the batch lock
FlushInternal(t, op, measurements, thr) ==
    /\ batch_buffer' = <<>>
    /\ ref_counter' = generate_ref(ref_counter)
    /\ IF ws = "none"
       THEN \* _send_raw raises ConnectionError through the `async with`
            /\ batch_lock' = Release(Held(t))
            /\ pc' = [pc EXCEPT ![t] = "idle"]
            /\ call' = Done(t, "ConnectionError", 0)
            /\ UNCHANGED lock
       ELSE /\ batch_lock' = Held(t)
            /\ lock' = Acquire(lock, t)
            /\ pc' = [pc EXCEPT ![t] = "send_raw"]
            /\ call' = [call EXCEPT ![t] =
                   [NoCall EXCEPT !.op = op, !.topic = StreamTopic,
                                  !.event = FlushEvent(measurements),
                                  !.payload = measurements, !.array = TRUE,
                                  !.ref = Str(generate_ref(ref_counter)),
                                  !.thr = thr, !.reached = TRUE]]

\* add_to_batch lines 183-187, inside the batch lock
AddLocked(t, attribute_id) ==
    LET buffer == Append(batch_buffer, Measurement(enq + 1, attribute_id))
        batch_size == backpressure.recommended_batch_size
    IN /\ enq' = enq + 1
       /\ IF ThresholdReached(Len(buffer), batch_size)
          THEN FlushInternal(t, "add_to_batch", buffer, batch_size)
          ELSE /\ batch_buffer' = buffer
               /\ batch_lock' = Release(Held(t))
               /\ pc' = [pc EXCEPT ![t] = "idle"]
               /\ call' = Done(t, "ok", 0)
               /\ UNCHANGED <<ref_counter, lock>>

\* flush_batch lines 191-192 with _flush_batch_internal, inside the batch lock
FlushLocked(t) ==
    /\ UNCHANGED enq
    /\ IF batch_buffer = <<>>
       THEN /\ batch_lock' = Release(Held(t))
            /\ pc' = [pc EXCEPT ![t] = "idle"]
            /\ call' = Done(t, "ok", 0)
            /\ UNCHANGED <<batch_buffer, ref_counter, lock>>
       ELSE FlushInternal(t, "flush_batch", batch_buffer, 0)

\* a call that has to wait for the batch lock
WaitBatchLock(t, op, attribute_id) ==
    /\ batch_lock' = Acquire(batch_lock, t)
    /\ pc' = [pc EXCEPT ![t] = "batch_lock"]
    /\ call' = [call EXCEPT ![t] = [NoCall EXCEPT !.op = op,
                                                  !.attribute_id = attribute_id]]
    /\ UNCHANGED <<batch_buffer, ref_counter, lock, enq>>

Raise(t, error) ==
    /\ call' = Done(t, error, 0)
    /\ UNCHANGED <<batch_buffer, batch_lock, ref_counter, lock, enq, pc>>

\* SensorStream.add_to_batch lines 168-187
AddToBatch(t, attribute_id) ==
    /\ pc[t] = "idle" /\ ref_counter < MaxRef /\ enq < MaxMeas
    /\ IF ~is_active THEN Raise(t, "DisconnectedError")
       ELSE IF ~validate_attribute_id(attribute_id)
       THEN Raise(t, "InvalidAttributeIdError")
       ELSE IF BatchLockFree THEN AddLocked(t, attribute_id)
       ELSE WaitBatchLock(t, "add_to_batch", attribute_id)
    /\ UNCHANGED <<ws, connected, pending_replies, receive_task, heartbeat_task,
                   hb_ref, disc, joined, backpressure, observer, moreVars, simVars, wire, awaiters, resolved>>

\* SensorStream.flush_batch lines 189-192
FlushBatch(t) ==
    /\ pc[t] = "idle" /\ ref_counter < MaxRef
    /\ IF BatchLockFree THEN FlushLocked(t) ELSE WaitBatchLock(t, "flush_batch", <<>>)
    /\ UNCHANGED <<ws, connected, pending_replies, receive_task, heartbeat_task,
                   hb_ref, disc, joined, backpressure, observer, moreVars, simVars, wire, awaiters, resolved>>

NeverLeft == FALSE

\* leave lines 111-112: the stream is not joined, leave returns at once
StreamLeft == ~joined

\* leave lines 115-117 with the batch lock held by t: flush_batch writes a
\* non-empty buffer; with nothing to flush the phx_leave request follows at once
LeaveLocked(t) ==
    IF batch_buffer = <<>>
    THEN /\ batch_lock' = Release(Held(t))
         /\ LeaveRequest(t, lock, <<>>)
         /\ UNCHANGED <<batch_buffer, enq>>
    ELSE /\ FlushInternal(t, "leave", batch_buffer, 0)
         /\ UNCHANGED <<enq, pending_replies, awaiters>>

\* SensorStream.leave lines 109-119 (close, lines 251-253, is leave)
Leave(t) ==
    /\ pc[t] = "idle" /\ ref_counter < MaxRef
    /\ IF StreamLeft
       THEN /\ call' = Done(t, "not_joined", 0)
            /\ UNCHANGED <<batch_buffer, batch_lock, ref_counter, lock, enq, pc,
                           pending_replies, awaiters>>
       ELSE IF BatchLockFree THEN LeaveLocked(t)
       ELSE WaitBatchLock(t, "leave", <<>>) /\ UNCHANGED <<pending_replies, awaiters>>
    /\ UNCHANGED <<ws, connected, receive_task, heartbeat_task, hb_ref, disc, joined,
                   backpressure, observer, moreVars, simVars, wire, resolved>>

\* the batch lock is handed to a waiting call, which runs its guarded region
BatchLockGranted(t) ==
    /\ pc[t] = "batch_lock" /\ batch_lock.holder = t
    /\ IF call[t].op = "add_to_batch"
       THEN AddLocked(t, call[t].attribute_id) /\ UNCHANGED <<pending_replies, awaiters>>
       ELSE IF call[t].op = "leave" THEN LeaveLocked(t)
       ELSE FlushLocked(t) /\ UNCHANGED <<pending_replies, awaiters>>
    /\ UNCHANGED <<ws, connected, receive_task, heartbeat_task, hb_ref, disc, joined,
                   backpressure, observer, moreVars, simVars, wire, resolved>>

\* SensorStream.send_measurement lines 135-149 up to the WebSocket send
SendMeasurement(t, attribute_id) ==
    /\ pc[t] = "idle" /\ ref_counter < MaxRef
    /\ IF ~is_active THEN Raise(t, "DisconnectedError")
       ELSE IF ~validate_attribute_id(attribute_id)
       THEN Raise(t, "InvalidAttributeIdError")
       ELSE /\ ref_counter' = generate_ref(ref_counter)
            /\ lock' = Acquire(lock, t)
            /\ pc' = [pc EXCEPT ![t] = "send_raw"]
            /\ call' = [call EXCEPT ![t] =
                   [NoCall EXCEPT !.op = "send_measurement", !.topic = StreamTopic,
                                  !.event = "measurement",
                                  !.payload = <<Measurement(0, attribute_id)>>,
                                  !.ref = Str(generate_ref(ref_counter))]]
            /\ UNCHANGED <<batch_buffer, batch_lock, enq>>
    /\ UNCHANGED <<ws, connected, pending_replies, receive_task, heartbeat_task,
                   hb_ref, disc, joined, backpressure, observer, moreVars, simVars, wire, awaiters, resolved>>

\* ------------------------------------------------------------ heartbeat
\* _heartbeat_loop lines 298-310: the sleep is over
HeartbeatFire ==
    /\ heartbeat_task = "sleep"
    /\ IF ~connected
       THEN \* `if self._connected` fails, then `while self._connected` ends the loop
            /\ heartbeat_task' = "done"
            /\ UNCHANGED <<ref_counter, lock, hb_ref>>
       ELSE /\ ref_counter < MaxRef
            /\ ref_counter' = generate_ref(ref_counter)
            /\ hb_ref' = Str(generate_ref(ref_counter))
            /\ IF ws = "none"
               THEN \* _send_raw raises, the loop logs it and goes on
                    UNCHANGED <<heartbeat_task, lock>>
               ELSE /\ lock' = Acquire(lock, HB)
                    /\ heartbeat_task' = "send_raw"
    /\ UNCHANGED <<ws, connected, pending_replies, receive_task, disc, joined,
                   batch_buffer, batch_lock, backpressure, observer, moreVars, simVars, envVars>>

\* _heartbeat_loop line 310 inside _send_raw line 242, then the loop condition
HeartbeatWsSend ==
    /\ heartbeat_task = "send_raw" /\ lock.holder = HB
    /\ lock' = Release(lock)
    /\ wire' = IF ws = "open"
               THEN Append(wire, Frame("phoenix", "heartbeat", <<>>, FALSE, hb_ref,
                                       "heartbeat", 1))
               ELSE wire
    /\ heartbeat_task' = IF connected THEN "sleep" ELSE "done"
    /\ UNCHANGED <<ws, connected, ref_counter, pending_replies, receive_task, hb_ref, disc,
                   joined, batch_buffer, batch_lock, backpressure, observer, moreVars, simVars, pc, call,
                   enq, awaiters, resolved>>

\* ------------------------------------------------------------ inbound
ReplyPayloads == {"ok", "error", "empty", "bad"}
ReplyRefs == {NullRef} \cup {Str(n) : n \in 1..(MaxRef + 1)}

\* backpressure_config payloads.  object: the payload is a JSON object;
\* optional fields: <<>> when the key is absent, <<v>> when present
BPPayloads ==
    { [object |-> TRUE, attention_level |-> <<"high">>,
       recommended_batch_window |-> <<100>>, recommended_batch_size |-> <<1>>],
      [object |-> TRUE, attention_level |-> <<"low">>,
       recommended_batch_window |-> <<>>, recommended_batch_size |-> <<>>],
      [object |-> TRUE, attention_level |-> <<>>,
       recommended_batch_window |-> <<>>, recommended_batch_size |-> <<2>>],
      [object |-> TRUE, attention_level |-> <<"bogus">>,
       recommended_batch_window |-> <<0>>, recommended_batch_size |-> <<0>>] }

\* a payload that is no object (null, a list, a number): payload.get raises
BadBPPayloads ==
    { [object |-> FALSE, attention_level |-> <<>>,
       recommended_batch_window |-> <<>>, recommended_batch_size |-> <<>>] }

Get(field, default) == IF field = <<>> THEN default ELSE field[1]

AttentionLevels == {"none", "low", "medium", "high"}

\* AttentionLevel.recommended_batch_window (models.py 29-38)
recommended_batch_window(level) ==
    CASE level = "high" -> 100
      [] level = "medium" -> 500
      [] level = "low" -> 2000
      [] level = "none" -> 5000

\* AttentionLevel.recommended_batch_size (models.py 40-49)
recommended_batch_size(level) ==
    CASE level = "high" -> 1
      [] level = "medium" -> 5
      [] level = "low" -> 10
      [] level = "none" -> 20

\* BackpressureConfig() (models.py 85-87)
BackpressureConfigDefault ==
    [attention_level |-> "none", recommended_batch_window |-> 500,
     recommended_batch_size |-> 5]

\* BackpressureConfig.from_payload (models.py)
from_payload(payload) ==
    LET attention == Get(payload.attention_level, "none") IN
    [attention_level |-> IF attention \in AttentionLevels THEN attention ELSE "none",
     recommended_batch_window |-> Get(payload.recommended_batch_window, 500),
     recommended_batch_size |-> Get(payload.recommended_batch_size, 5)]

\* _receive_loop + _handle_message lines 276-285: an inbound phx_reply
ReceiveReply(ref, payload) ==
    /\ receive_task = "running" /\ ws = "open"
    /\ IF ~connected
       THEN /\ receive_task' = "done"
            /\ UNCHANGED <<connected, pending_replies, resolved>>
       ELSE IF ref # NullRef /\ FutureWaiting(ref)
       THEN IF payload = "bad"
            THEN \* payload.get raises on a payload that is no object; the loop's
                 \* `except Exception` marks the socket disconnected and ends
                 /\ connected' = FALSE
                 /\ receive_task' = "done"
                 /\ UNCHANGED <<pending_replies, resolved>>
            ELSE /\ pending_replies' = [pending_replies EXCEPT ![ref] = ReplyStatus(payload)]
                 /\ resolved' = Resolve(resolved, ref, "reply")
                 /\ UNCHANGED <<connected, receive_task>>
       ELSE \* unknown or finished ref: dropped; a reply without ref finds no handler
            UNCHANGED <<connected, receive_task, pending_replies, resolved>>
    /\ UNCHANGED <<ws, ref_counter, lock, heartbeat_task, hb_ref, disc, joined,
                   batch_buffer, batch_lock, backpressure, observer, moreVars, simVars, pc, call, wire, enq,
                   awaiters>>

CountMod == 4      \* the observer's invocations are counted modulo this

\* ------------------------------------------------------------ event dispatch
MaxHandlers == 2   \* registrations at a time, over all keys

\* the handlers an application registers, and what each does when called:
\* return, raise an Exception, or take itself off the key it is called for
Handlers == {"h1", "h2", "h3"}
Behaviour == [h1 |-> "returns", h2 |-> "raises", h3 |-> "off"]

DispatchEvents == {"call_ended", "participant_joined"}

\* on/off/_handle_message: key = f"{topic}:{event}"
HandlerKey(topic, event) == topic \o ":" \o event

\* self._event_handlers.get(key, [])
HandlersOf(key) == IF key \in DOMAIN event_handlers THEN event_handlers[key] ELSE <<>>

RECURSIVE Registered(_, _)
Registered(f, keys) ==
    IF keys = {} THEN 0
    ELSE LET k == CHOOSE k \in keys : TRUE IN Len(f[k]) + Registered(f, keys \ {k})

\* list.remove(h): the first occurrence goes; ValueError when there is none
RECURSIVE Remove(_, _)
Remove(s, h) ==
    IF s = <<>> THEN <<>>
    ELSE IF Head(s) = h THEN Tail(s)
    ELSE <<Head(s)>> \o Remove(Tail(s), h)

\* PhoenixSocket.on lines 213-216
On(topic, event, handler) ==
    /\ Registered(event_handlers, DOMAIN event_handlers) < MaxHandlers
    /\ LET key == HandlerKey(topic, event) IN
       event_handlers' = Put(event_handlers, key, Append(HandlersOf(key), handler))
    /\ UNCHANGED <<ws, connected, ref_counter, pending_replies, lock, receive_task,
                   heartbeat_task, hb_ref, disc, joined, batch_buffer, batch_lock,
                   backpressure, observer, session, facade, delivered, simVars,
                   envVars>>

\* PhoenixSocket.off lines 226-234 with a handler
Off(topic, event, handler) ==
    /\ LET key == HandlerKey(topic, event) IN
       /\ key \in DOMAIN event_handlers
       /\ event_handlers' = [event_handlers EXCEPT ![key] = Remove(@, handler)]
    /\ UNCHANGED <<ws, connected, ref_counter, pending_replies, lock, receive_task,
                   heartbeat_task, hb_ref, disc, joined, batch_buffer, batch_lock,
                   backpressure, observer, session, facade, delivered, simVars,
                   envVars>>

\* PhoenixSocket.off lines 226-228 without a handler: the key goes
OffAll(topic, event) ==
    /\ LET key == HandlerKey(topic, event) IN
       /\ key \in DOMAIN event_handlers
       /\ event_handlers' = Pop(event_handlers, key)
    /\ UNCHANGED <<ws, connected, ref_counter, pending_replies, lock, receive_task,
                   heartbeat_task, hb_ref, disc, joined, batch_buffer, batch_lock,
                   backpressure, observer, session, facade, delivered, simVars,
                   envVars>>

\* _handle_message lines 290-294: `for handler in handlers` walks the list of
\* the key by index while the handlers run; i is the index of the next one, to
\* the handlers called so far.  A handler that raises is logged and passed; one
\* that takes itself off shortens the very list the loop walks.
RECURSIVE DispatchLoop(_, _, _)
DispatchLoop(handlers, i, to) ==
    IF i > Len(handlers) THEN [handlers |-> handlers, to |-> to]
    ELSE LET h == handlers[i] IN
         DispatchLoop(IF Behaviour[h] = "off" THEN Remove(handlers, h) ELSE handlers,
                      i + 1, Append(to, h))

\* nothing delivered yet
NoneDelivered == [key |-> "", to |-> <<>>, n |-> 0]

\* _receive_loop + _handle_message lines 287-294: an inbound frame that is no
\* reply
ReceiveEvent(topic, event) ==
    /\ receive_task = "running" /\ ws = "open"
    /\ IF ~connected
       THEN /\ receive_task' = "done"
            /\ UNCHANGED <<event_handlers, delivered>>
       ELSE LET key == HandlerKey(topic, event)
                d == DispatchLoop(HandlersOf(key), 1, <<>>)
            IN /\ delivered' = [key |-> key, to |-> d.to,
                                n |-> (delivered.n + 1) % CountMod]
               /\ event_handlers' = IF key \in DOMAIN event_handlers
                                    THEN [event_handlers EXCEPT ![key] = d.handlers]
                                    ELSE event_handlers
               /\ UNCHANGED receive_task
    /\ UNCHANGED <<ws, connected, ref_counter, pending_replies, lock, heartbeat_task,
                   hb_ref, disc, joined, batch_buffer, batch_lock, backpressure,
                   observer, session, facade, simVars, envVars>>

\* no observer installed, nothing observed
NoObserver == [handler |-> "none", last |-> <<>>, calls |-> 0, caught |-> "none"]

ObserverErrorEscapes == "socket"

\* _handle_backpressure lines 246-249: an exception of the observer is caught
\* by the stream (and would otherwise reach the socket's dispatch loop)
ObserverErrorCaught == "stream"

\* _handle_backpressure lines 245-249: the observer, when there is one, is
\* called with the new state
Notify(o, state) ==
    IF o.handler = "none" THEN o
    ELSE [o EXCEPT !.last = <<state>>,
                   !.calls = (@ + 1) % CountMod,
                   !.caught = IF o.handler = "raises" THEN ObserverErrorCaught ELSE @]

\* SensorStream.on_backpressure lines 81-88; the handler returns or raises
OnBackpressure(handler) ==
    /\ observer' = [observer EXCEPT !.handler = handler]
    /\ UNCHANGED <<ws, connected, ref_counter, pending_replies, lock, receive_task,
                   heartbeat_task, hb_ref, disc, joined, batch_buffer, batch_lock,
                   backpressure, moreVars, simVars, envVars>>

\* _receive_loop + _handle_message lines 288-294 + SensorStream._handle_backpressure
ReceiveBackpressure(payload) ==
    /\ receive_task = "running" /\ ws = "open"
    /\ IF ~connected
       THEN /\ receive_task' = "done"
            /\ UNCHANGED <<backpressure, observer>>
       ELSE IF ~payload.object
       THEN \* from_payload raises on payload.get, before the assignment of line
            \* 242; the dispatch loop of the socket (lines 291-294) logs it
            /\ observer' = [observer EXCEPT !.caught = "socket"]
            /\ UNCHANGED <<backpressure, receive_task>>
       ELSE /\ backpressure' = from_payload(payload)
            /\ observer' = Notify(observer, from_payload(payload))
            /\ UNCHANGED receive_task
    /\ UNCHANGED <<ws, connected, ref_counter, pending_replies, lock, heartbeat_task,
                   hb_ref, disc, joined, batch_buffer, batch_lock, moreVars, simVars,
                   envVars>>

\* The server side closes the connection.  The WebSocket iterator raises on an
\* abnormal close (the loop marks the socket disconnected) and just ends on a
\* normal one (the loop returns with _connected still set).
PeerClose(abnormal) ==
    /\ ws = "open"
    /\ ws' = "closed"
    /\ IF receive_task = "running"
       THEN /\ receive_task' = "done"
            /\ connected' = IF abnormal THEN FALSE ELSE connected
       ELSE UNCHANGED <<receive_task, connected>>
    /\ UNCHANGED <<ref_counter, pending_replies, lock, heartbeat_task, hb_ref, disc,
                   joined, batch_buffer, batch_lock, backpressure, observer, moreVars, simVars, envVars>>

\* ------------------------------------------------------------ disconnect
\* PhoenixSocket.disconnect lines 115-123: mark, cancel the receive task, await it
DisconnectBegin ==
    /\ disc = "idle" /\ receive_task # "none"
    /\ connected' = FALSE
    /\ receive_task' = "cancelled"
    /\ disc' = "heartbeat"
    /\ UNCHANGED <<ws, ref_counter, pending_replies, lock, heartbeat_task, hb_ref, joined,
                   batch_buffer, batch_lock, backpressure, observer, moreVars, simVars, envVars>>

\* lines 125-130: cancel the heartbeat task, await it
DisconnectHeartbeat ==
    /\ disc = "heartbeat"
    /\ heartbeat_task' = "cancelled"
    /\ lock' = IF heartbeat_task = "send_raw" THEN Abandon(lock, HB) ELSE lock
    /\ disc' = "close"
    /\ UNCHANGED <<ws, connected, ref_counter, pending_replies, receive_task, hb_ref,
                   joined, batch_buffer, batch_lock, backpressure, observer, moreVars, simVars, envVars>>

SocketLeftOpen == "open"

\* disconnect lines 133-135: `await self._ws.close()`, `self._ws = None`
SocketAfterClose == "none"

\* lines 133-135: close the WebSocket, forget it
DisconnectClose ==
    /\ disc = "close"
    /\ ws' = SocketAfterClose
    /\ disc' = "done"
    /\ facade' = NewFacade            \* SensoctoClient.disconnect lines 142-143
    /\ UNCHANGED <<connected, ref_counter, pending_replies, lock, receive_task,
                   heartbeat_task, hb_ref, joined, batch_buffer, batch_lock,
                   backpressure, observer, session, dispatchVars, simVars, envVars>>

\* _receive_loop + _handle_message with CallSession._on_call_ended lines
\* 287-290: an inbound call_ended on the session's topic
ReceiveCallEnded ==
    /\ receive_task = "running" /\ ws = "open"
    /\ IF ~connected
       THEN /\ receive_task' = "done"
            /\ UNCHANGED session
       ELSE /\ session' = [session EXCEPT !.in_call = FALSE]
            /\ UNCHANGED receive_task
    /\ UNCHANGED <<ws, connected, ref_counter, pending_replies, lock, heartbeat_task,
                   hb_ref, disc, joined, batch_buffer, batch_lock, backpressure,
                   observer, facade, dispatchVars, simVars, envVars>>

\* ------------------------------------------------------------ PhoenixChannelClient
MaxConnects == 2   \* connections opened in one behaviour
MaxFailed == 6     \* consecutive failed connection attempts followed by SpecConn
MaxFailedSim == 1  \* consecutive failed connection attempts followed by SpecSim
MaxClock == 3      \* readings of time.time() after which unsubscribe is not called

\* SensoctoConfig.max_reconnect_attempts
max_reconnect_attempts == 5

SimTopics == {"sensor_data:s1"}                       \* topics pushed to
JoinTopics == {"sensor_data:s1", "sensor_data:s2"}    \* topics subscribed to
JoinParams == {11, 12}     \* join params, e.g. the device a channel is joined for
TopicOrder == <<"sensor_data:s1">>
TimerIds == <<"k1", "k2", "k3", "k4", "k5", "k6">>   \* names of the timer tasks
CONN == "conn"         \* the task inside connect()
CLOSER == "closer"     \* the task inside close()

sdkOnlyVars == <<impl, ref_counter, pending_replies, receive_task, heartbeat_task, hb_ref,
                 disc, joined, batch_buffer, batch_lock, backpressure, observer, moreVars>>

\* BackpressureConfig.__init__ (python_phoenix_client.py)
DefaultConfig == [attention_level |-> "none", batch_window_ms |-> 5000, batch_size |-> 20]

\* BackpressureConfig.update: every field keeps its value when the key is absent
update(config, payload) ==
    [attention_level |-> Get(payload.attention_level, config.attention_level),
     batch_window_ms |-> Get(payload.recommended_batch_window, config.batch_window_ms),
     batch_size |-> Get(payload.recommended_batch_size, config.batch_size)]

SimBPPayloads ==
    { [attention_level |-> <<"high">>, recommended_batch_window |-> <<100>>,
       recommended_batch_size |-> <<1>>],
      [attention_level |-> <<"bogus">>, recommended_batch_window |-> <<>>,
       recommended_batch_size |-> <<3>>] }

\* push line 158: `self.ws and self.connected and not self.ws.closed`
Sendable(c) == ws = "open" /\ c

SimThresholdExceeded(len, batch_size) == len > batch_size

\* push_with_backpressure line 187: the flush threshold
SimThresholdReached(len, batch_size) == len >= batch_size

\* _flush_queue lines 225-228: the event and the payload shape by batch length
flush_queue_event(messages) ==
    IF Len(messages) = 1 THEN "measurement" ELSE "measurements_batch"
flush_queue_array(messages) == Len(messages) # 1

TimerNeverRunning(topic) == FALSE

\* _ensure_batch_timer line 195: a timer task is recorded for the topic and not done
TimerRunning(topic) == batch_tasks[topic] \in DOMAIN timers

\* str(time.time()): the wall clock is read; the model lets every reading be
\* later than the one before
time_ref == Str(sim_time + 1)

\* a push() or _join_channel() call in progress: waiting for the lock
\* ("lock_wait") or inside the send of a WebSocket under the lock ("ws_send");
\* conn numbers the WebSocket object `self.ws` named when the send was called
Job(kind, jpc, topic, event, payload, array, via) ==
    [kind |-> kind, pc |-> jpc, topic |-> topic, event |-> event, payload |-> payload,
     array |-> array, via |-> via,
     ref |-> IF jpc = "ws_send" THEN time_ref ELSE NullRef,
     conn |-> IF jpc = "ws_send" THEN connects ELSE 0]

JobFrame(j) == Frame(j.topic, j.event, j.payload, j.array, j.ref, j.via, j.conn)

join_payload_none(params) == <<>>

\* _join_channel line 135: the payload of the phx_join frame is the params
\* recorded for the topic
join_payload(params) == <<params>>

StartPushUnlocked(l, id, c) ==
    IF Sendable(c) THEN [lock |-> Acquire(l, id), pc |-> "ws_send"]
                   ELSE [lock |-> l, pc |-> "dropped"]

\* push lines 157-158 on lock l: where the call gets without suspending.  With
\* the lock free and nothing to send to the frame is dropped at once.
StartPush(l, id, c) ==
    IF l.holder = NoTask /\ l.waiters = <<>>
    THEN IF Sendable(c) THEN [lock |-> Acquire(l, id), pc |-> "ws_send"]
                        ELSE [lock |-> l, pc |-> "dropped"]
    ELSE [lock |-> Acquire(l, id), pc |-> "lock_wait"]

\* _flush_queue lines 217-228 then push, for the messages drained from a queue
FlushJob(jpc, topic, messages, via) ==
    Job("push", jpc, topic, flush_queue_event(messages), messages,
        flush_queue_array(messages), via)

\* task.cancel() on the tasks ids: they leave the lock
CancelAll(l, ids) ==
    LET w == SelectSeq(l.waiters, LAMBDA x : x \notin ids) IN
    IF l.holder \in ids THEN Release([holder |-> l.holder, waiters |-> w])
    ELSE [l EXCEPT !.waiters = w]

Restrict(f, ids) == [x \in DOMAIN f \ ids |-> f[x]]

\* close lines 237-238: the loop over the queues, up to its first suspension
\* (a push that has to wait for the lock or enters the WebSocket send) or its end
RECURSIVE CloseLoop(_, _, _, _)
CloseLoop(queues, l, todo, c) ==
    IF todo = <<>>
    THEN [queues |-> queues, lock |-> l, todo |-> <<>>, pc |-> "finished",
          topic |-> "", messages |-> <<>>]
    ELSE LET topic == Head(todo)
             messages == queues[topic]
             drained == [queues EXCEPT ![topic] = <<>>]
             p == StartPush(l, CLOSER, c)
         IN IF messages = <<>> THEN CloseLoop(queues, l, Tail(todo), c)
            ELSE IF p.pc = "dropped" THEN CloseLoop(drained, l, Tail(todo), c)
            ELSE [queues |-> drained, lock |-> p.lock, todo |-> Tail(todo),
                  pc |-> p.pc, topic |-> topic, messages |-> messages]

\* close lines 237-244 from the queues in todo on: flush them, then close the
\* WebSocket, mark the client disconnected and cancel the receiving task.
\* l, c, js: the lock, `connected` and the calls in progress as the caller leaves
\* them; rt: the state of the receiving task while close() is suspended.
CloseContinue(l, c, todo, js, rt) ==
    LET r == CloseLoop(message_queues, l, todo, c) IN
    /\ message_queues' = r.queues
    /\ lock' = r.lock
    /\ IF r.pc = "finished"
       THEN /\ closer' = [pc |-> "idle", todo |-> <<>>]
            /\ jobs' = js
            /\ ws' = IF ws = "none" THEN "none" ELSE "closed"
            /\ connected' = IF ws = "none" THEN c ELSE FALSE
            /\ receiving_task' = IF ws = "none" \/ rt = "none" THEN rt ELSE "done"
            /\ sim_time' = sim_time
       ELSE /\ closer' = [pc |-> "flushing", todo |-> r.todo]
            /\ jobs' = Put(js, CLOSER, FlushJob(r.pc, r.topic, r.messages, "close"))
            /\ connected' = c
            /\ receiving_task' = rt
            /\ sim_time' = IF r.pc = "ws_send" THEN sim_time + 1 ELSE sim_time
            /\ UNCHANGED ws

\* connect lines 62-64: _join_all_channels from the topics in todo on, then the
\* receiving task is created; n numbers the WebSocket that connect() opened
ConnContinue(l, c, todo, js, n) ==
    /\ connected' = c
    /\ IF todo = <<>>
       THEN /\ conn' = [pc |-> "idle", todo |-> <<>>, failed |-> 0]
            /\ receiving_task' = "running"
            /\ lock' = l
            /\ jobs' = js
            /\ sim_time' = sim_time
       ELSE LET got == l.holder = NoTask /\ l.waiters = <<>>
                jpc == IF got THEN "ws_send" ELSE "lock_wait"
            IN /\ conn' = [pc |-> "joining", todo |-> todo, failed |-> 0]
               /\ lock' = Acquire(l, CONN)
               /\ jobs' = Put(js, CONN,
                      [Job("join", jpc, Head(todo).topic, "phx_join",
                           join_payload(Head(todo).params), FALSE, "join")
                          EXCEPT !.conn = IF got THEN n ELSE 0])
               /\ sim_time' = IF got THEN sim_time + 1 ELSE sim_time
               /\ UNCHANGED receiving_task

\* the caller of a finished push() or _join_channel() goes on; l and c are the
\* lock and `connected` as the call leaves them
FinishJob(id, l, c) ==
    LET js == Pop(jobs, id) IN
    IF id \in Tasks
    THEN \* push_with_backpressure returns
         /\ pc' = [pc EXCEPT ![id] = "idle"]
         /\ call' = [call EXCEPT ![id] = NoCall]
         /\ jobs' = js /\ lock' = l /\ connected' = c
         /\ UNCHANGED <<timers, conn, closer, message_queues, receiving_task, ws, sim_time>>
    ELSE IF id = CONN
    THEN /\ ConnContinue(l, c, Tail(conn.todo), js, connects)
         /\ UNCHANGED <<pc, call, timers, closer, message_queues, ws>>
    ELSE IF id = CLOSER
    THEN /\ CloseContinue(l, c, closer.todo, js, receiving_task)
         /\ UNCHANGED <<pc, call, timers, conn>>
    ELSE \* _batch_timer ends
         /\ timers' = Pop(timers, id)
         /\ jobs' = js /\ lock' = l /\ connected' = c
         /\ UNCHANGED <<pc, call, conn, closer, message_queues, receiving_task, ws, sim_time>>

KeepRecord(chs, topic) == chs

\* unsubscribe line 150: del self.channels[topic]
Forget(chs, topic) == SelectSeq(chs, LAMBDA c : c.topic # topic)

\* `topic in self.channels`
Recorded(topic) == \E i \in 1..Len(channels) : channels[i].topic = topic

\* the lock is handed to a waiting push() (line 158: send or drop),
\* _join_channel() (line 135) or unsubscribe() (lines 148-153: forget the
\* topic, send phx_leave when connected)
JobGranted(id) ==
    /\ id \in DOMAIN jobs /\ jobs[id].pc = "lock_wait" /\ lock.holder = id
    /\ channels' = IF jobs[id].kind = "leave" THEN Forget(channels, jobs[id].topic)
                   ELSE channels
    /\ IF \/ jobs[id].kind = "join"
          \/ jobs[id].kind = "push" /\ Sendable(connected)
          \/ jobs[id].kind = "leave" /\ Recorded(jobs[id].topic) /\ connected
       THEN /\ jobs' = [jobs EXCEPT ![id].pc = "ws_send", ![id].ref = time_ref,
                                     ![id].conn = connects]
            /\ sim_time' = sim_time + 1
            /\ UNCHANGED <<lock, connected, pc, call, timers, conn, closer,
                           message_queues, receiving_task, ws>>
       ELSE FinishJob(id, Release(lock), connected)
    /\ UNCHANGED <<backpressure_configs, batch_tasks, connects,
                   wire, enq, awaiters, resolved, sdkOnlyVars>>

\* push line 162 / _join_channel line 136: the WebSocket send completes, or
\* raises on a closed connection (push then clears `connected`, lines 163-165)
JobWsSend(id) ==
    /\ id \in DOMAIN jobs /\ jobs[id].pc = "ws_send" /\ lock.holder = id
    /\ IF ws = "open" /\ jobs[id].conn = connects
       THEN /\ wire' = Append(wire, JobFrame(jobs[id]))
            /\ FinishJob(id, Release(lock), connected)
       ELSE /\ wire' = wire
            /\ FinishJob(id, Release(lock),
                         IF jobs[id].kind = "push" THEN FALSE ELSE connected)
    /\ UNCHANGED <<channels, backpressure_configs, batch_tasks, connects,
                   enq, awaiters, resolved, sdkOnlyVars>>

\* asyncio.create_task: a task that is none of the tasks alive or still
\* referenced (the first free name)
NewTimer ==
    LET used == DOMAIN timers \cup {batch_tasks[topic] : topic \in SimTopics}
        free == {i \in 1..Len(TimerIds) : TimerIds[i] \notin used}
    IN TimerIds[CHOOSE i \in free : \A j \in free : i <= j]

\* _ensure_batch_timer lines 195-201
ensure_batch_timer(topic) ==
    IF TimerRunning(topic)
    THEN UNCHANGED <<batch_tasks, timers>>
    ELSE LET k == NewTimer IN
         /\ timers' = Put(timers, k,
                [topic |-> topic, pc |-> "sleep",
                 window_ms |-> backpressure_configs[topic].batch_window_ms])
         /\ batch_tasks' = [batch_tasks EXCEPT ![topic] = k]

\* push_with_backpressure lines 173-191, with _flush_queue and push up to the
\* first suspension
PushWithBackpressure(t, topic) ==
    /\ pc[t] = "idle" /\ enq < MaxMeas
    /\ LET queue == Append(message_queues[topic], enq + 1)
           config == backpressure_configs[topic]
           p == StartPush(lock, t, connected)
       IN /\ enq' = enq + 1
          /\ IF SimThresholdReached(Len(queue), config.batch_size)
             THEN /\ message_queues' = [message_queues EXCEPT ![topic] = <<>>]
                  /\ lock' = p.lock
                  /\ IF p.pc = "dropped"
                     THEN UNCHANGED <<pc, call, jobs, sim_time>>
                     ELSE /\ pc' = [pc EXCEPT ![t] = "busy"]
                          /\ call' = [call EXCEPT ![t] =
                                 [NoCall EXCEPT !.op = "push_with_backpressure",
                                                !.topic = topic,
                                                !.thr = config.batch_size,
                                                !.reached = TRUE]]
                          /\ jobs' = Put(jobs, t, FlushJob(p.pc, topic, queue,
                                                          "push_with_backpressure"))
                          /\ sim_time' = IF p.pc = "ws_send" THEN sim_time + 1
                                         ELSE sim_time
                  /\ UNCHANGED <<batch_tasks, timers>>
             ELSE /\ message_queues' = [message_queues EXCEPT ![topic] = queue]
                  /\ ensure_batch_timer(topic)
                  /\ UNCHANGED <<lock, pc, call, jobs, sim_time>>
    /\ UNCHANGED <<ws, connected, channels, receiving_task, backpressure_configs, conn,
                   closer, connects, wire, awaiters, resolved, sdkOnlyVars>>

\* _batch_timer lines 205-207: the sleep is over
TimerFire(k) ==
    /\ k \in DOMAIN timers /\ timers[k].pc = "sleep"
    /\ LET topic == timers[k].topic
           messages == message_queues[topic]
           p == StartPush(lock, k, connected)
       IN IF messages = <<>> \/ p.pc = "dropped"
          THEN /\ timers' = Pop(timers, k)
               /\ message_queues' = [message_queues EXCEPT ![topic] = <<>>]
               /\ UNCHANGED <<lock, jobs, sim_time>>
          ELSE /\ timers' = [timers EXCEPT ![k].pc = "flush"]
               /\ message_queues' = [message_queues EXCEPT ![topic] = <<>>]
               /\ lock' = p.lock
               /\ jobs' = Put(jobs, k, FlushJob(p.pc, topic, messages, "timer"))
               /\ sim_time' = IF p.pc = "ws_send" THEN sim_time + 1 ELSE sim_time
    /\ UNCHANGED <<ws, connected, channels, receiving_task, backpressure_configs,
                   batch_tasks, conn, closer, connects, pc, call, wire, enq,
                   awaiters, resolved, sdkOnlyVars>>

\* unsubscribe lines 146-153, up to its first suspension: the wait for the
\* lock, or the WebSocket send of the phx_leave frame
Unsubscribe(t, topic) ==
    /\ pc[t] = "idle" /\ sim_time < 1000 + MaxClock
    /\ LET free == lock.holder = NoTask /\ lock.waiters = <<>>
           sends == Recorded(topic) /\ connected
       IN /\ channels' = IF free THEN Forget(channels, topic) ELSE channels
          /\ IF free /\ ~sends
             THEN UNCHANGED <<lock, jobs, pc, call, sim_time>>
             ELSE /\ lock' = Acquire(lock, t)
                  /\ jobs' = Put(jobs, t,
                         Job("leave", IF free THEN "ws_send" ELSE "lock_wait", topic,
                             "phx_leave", <<>>, FALSE, "unsubscribe"))
                  /\ pc' = [pc EXCEPT ![t] = "busy"]
                  /\ call' = [call EXCEPT ![t] =
                         [NoCall EXCEPT !.op = "unsubscribe", !.topic = topic]]
                  /\ sim_time' = IF free THEN sim_time + 1 ELSE sim_time
    /\ UNCHANGED <<ws, connected, receiving_task, backpressure_configs,
                   message_queues, batch_tasks, timers, conn, closer, connects,
                   wire, enq, awaiters, resolved, sdkOnlyVars>>

\* subscribe lines 140-143; the call waits while the lock is taken
Subscribe(topic, params) ==
    /\ lock.holder = NoTask /\ lock.waiters = <<>>
    /\ channels' = IF Recorded(topic)
                   THEN channels
                   ELSE Append(channels, [topic |-> topic, params |-> params])
    /\ UNCHANGED <<ws, connected, lock, receiving_task, backpressure_configs,
                   message_queues, batch_tasks, timers, jobs, conn, closer,
                   sim_time, connects, envVars, sdkOnlyVars>>

\* connect lines 55-80: one round of the loop
ConnectAttempt(ok) ==
    /\ IF ok
       THEN /\ ws' = "open"
            /\ connects' = connects + 1
            /\ ConnContinue(lock, TRUE, channels, jobs, connects + 1)
       ELSE \* websockets.connect raises; the loop sleeps and tries again
            /\ connected' = FALSE
            /\ conn' = [pc |-> "backoff", todo |-> <<>>, failed |-> conn.failed + 1]
            /\ UNCHANGED <<ws, connects, lock, jobs, sim_time, receiving_task>>
    /\ UNCHANGED <<channels, backpressure_configs, message_queues, batch_tasks, timers,
                   closer, envVars, sdkOnlyVars>>

\* connect is called on a client that is not connected
SimConnect(ok) ==
    /\ conn.pc = "idle" /\ closer.pc = "idle" /\ ~connected
    /\ receiving_task \in {"none", "done"}
    /\ connects < MaxConnects
    /\ ConnectAttempt(ok)

\* connect lines 71, 79: the sleep before the next attempt is over; most bounds
\* the failed attempts in a row that a behaviour goes through
ConnectRetry(ok, most) ==
    /\ conn.pc = "backoff" /\ (ok \/ conn.failed < most)
    /\ ConnectAttempt(ok)

TimersCancelled(ts, topic) == [k \in {x \in DOMAIN ts : ts[x].topic # topic} |-> ts[k]]

\* _handle_backpressure_config lines 111-119: the timer tasks after the
\* handler, which touches neither batch_tasks nor any task
TimersAfterConfig(ts, topic) == ts

\* _receive_messages lines 97-98 with _handle_backpressure_config
SimReceiveBackpressure(topic, payload) ==
    /\ receiving_task = "running" /\ ws = "open"
    /\ backpressure_configs' =
           [backpressure_configs EXCEPT ![topic] = update(@, payload)]
    /\ timers' = TimersAfterConfig(timers, topic)
    /\ UNCHANGED <<ws, connected, lock, channels, receiving_task, message_queues,
                   batch_tasks, jobs, conn, closer, sim_time, connects,
                   envVars, sdkOnlyVars>>

\* the server side closes the connection
SimPeerClose ==
    /\ ws = "open"
    /\ ws' = "closed"
    /\ UNCHANGED <<connected, lock, simVars, envVars, sdkOnlyVars>>

\* _receive_messages on a closed connection: after a normal close the iteration
\* just ends; after an abnormal one it raises, and lines 105-109 mark the client
\* disconnected and run close() (lines 233-244)
ReceiveClosed(abnormal) ==
    /\ receiving_task = "running" /\ ws = "closed"
    /\ IF ~abnormal
       THEN /\ receiving_task' = "done"
            /\ UNCHANGED <<ws, connected, lock, message_queues, timers, jobs, closer,
                           sim_time>>
       ELSE LET ids == {batch_tasks[topic] : topic \in SimTopics} \cap DOMAIN timers IN
            /\ timers' = Restrict(timers, ids)
            /\ CloseContinue(CancelAll(lock, ids), FALSE, TopicOrder,
                             Restrict(jobs, ids), "closing")
    /\ UNCHANGED <<channels, backpressure_configs, batch_tasks, conn, connects,
                   envVars, sdkOnlyVars>>

InitSimVars ==
    /\ channels = <<>>
    /\ receiving_task = "none"
    /\ backpressure_configs = [topic \in SimTopics |-> DefaultConfig]
    /\ message_queues = [topic \in SimTopics |-> <<>>]
    /\ batch_tasks = [topic \in SimTopics |-> NoTask]
    /\ timers = EmptyMap
    /\ jobs = EmptyMap
    /\ conn = [pc |-> "idle", todo |-> <<>>, failed |-> 0]
    /\ closer = [pc |-> "idle", todo |-> <<>>]
    /\ sim_time = 1000
    /\ connects = 0

TypeOK ==
    /\ ws \in {"none", "open", "closed"}
    /\ connected \in BOOLEAN
    /\ ref_counter \in Nat

InitAll ==
    /\ ws = "none"
    /\ connected = FALSE
    /\ ref_counter = 0
    /\ pending_replies = EmptyMap
    /\ lock = FreeLock
    /\ receive_task = "none"
    /\ heartbeat_task = "none"
    /\ hb_ref = NullRef
    /\ disc = "idle"
    /\ joined = FALSE
    /\ batch_buffer = <<>>
    /\ batch_lock = FreeLock
    /\ backpressure = BackpressureConfigDefault
    /\ observer = NoObserver
    /\ session = NoSession
    /\ facade = NewFacade
    /\ event_handlers = EmptyMap
    /\ delivered = NoneDelivered
    /\ pc = [t \in Tasks |-> "idle"]
    /\ call = [t \in Tasks \cup {LAST} |-> NoCall]
    /\ wire = <<>>
    /\ enq = 0
    /\ awaiters = EmptyMap
    /\ resolved = EmptyMap

Init == impl = "sdk" /\ InitAll /\ InitSimVars

\* the stream-level operations of the SDK, over the same socket
NextStream ==
    \/ \E ok \in BOOLEAN : Connect(ok)
    \/ \E t \in Tasks : Join(t)
    \/ \E t \in Tasks, attribute_id \in StreamIds : AddToBatch(t, attribute_id)
    \/ \E t \in Tasks : FlushBatch(t)
    \/ \E t \in Tasks : BatchLockGranted(t)
    \/ \E t \in Tasks, attribute_id \in StreamIds : SendMeasurement(t, attribute_id)
    \/ \E t \in Tasks : WsSend(t)
    \/ \E t \in Tasks : SendReturn(t)
    \/ \E t \in Tasks : SendTimeout(t)
    \/ \E ref \in ReplyRefs, payload \in ReplyPayloads : ReceiveReply(ref, payload)
    \/ \E payload \in BPPayloads : ReceiveBackpressure(payload)
    \/ \E abnormal \in BOOLEAN : PeerClose(abnormal)

SpecStream == Init /\ [][NextStream]_vars

\* the backpressure events of a stream and its observer
NextObserver ==
    \/ \E ok \in BOOLEAN : Connect(ok)
    \/ \E handler \in {"returns", "raises"} : OnBackpressure(handler)
    \/ \E payload \in BPPayloads \cup BadBPPayloads : ReceiveBackpressure(payload)
    \/ \E abnormal \in BOOLEAN : PeerClose(abnormal)
    \/ DisconnectBegin
    \/ DisconnectHeartbeat
    \/ DisconnectClose

SpecObserver == Init /\ [][NextObserver]_vars

\* the measurement operations of a stream under every kind of attribute id
NextIds ==
    \/ \E ok \in BOOLEAN : Connect(ok)
    \/ \E t \in Tasks : Join(t)
    \/ \E t \in Tasks, attribute_id \in AttributeIds : AddToBatch(t, attribute_id)
    \/ \E t \in Tasks : FlushBatch(t)
    \/ \E t \in Tasks : BatchLockGranted(t)
    \/ \E t \in Tasks, attribute_id \in AttributeIds : SendMeasurement(t, attribute_id)
    \/ \E t \in Tasks : WsSend(t)
    \/ \E t \in Tasks : SendReturn(t)
    \/ \E t \in Tasks : SendTimeout(t)
    \/ \E ref \in ReplyRefs, payload \in ReplyPayloads : ReceiveReply(ref, payload)
    \/ \E abnormal \in BOOLEAN : PeerClose(abnormal)

SpecIds == Init /\ [][NextIds]_vars

\* the socket-level operations of the SDK
\* the attribute id of the producer beside a leave: "t1"
LeaveIds == {<<"t", "1">>}

NextLeave ==
    \/ \E ok \in BOOLEAN : Connect(ok)
    \/ \E t \in Tasks : Join(t)
    \/ \E t \in Tasks, attribute_id \in LeaveIds : AddToBatch(t, attribute_id)
    \/ \E t \in Tasks, attribute_id \in LeaveIds : SendMeasurement(t, attribute_id)
    \/ \E t \in Tasks : Leave(t)
    \/ \E t \in Tasks : BatchLockGranted(t)
    \/ \E t \in Tasks : WsSend(t)
    \/ \E t \in Tasks : SendReturn(t)
    \/ \E t \in Tasks : SendTimeout(t)
    \/ \E ref \in ReplyRefs, payload \in {"ok", "error"} : ReceiveReply(ref, payload)
    \/ \E abnormal \in BOOLEAN : PeerClose(abnormal)

\* a stream that is joined, fed and left
SpecLeave == Init /\ [][NextLeave]_vars

\* the socket with a server that answers nothing: no reply is ever received
NextSilent ==
    \/ \E ok \in BOOLEAN : Connect(ok)
    \/ \E t \in Tasks : Send(t)
    \/ \E t \in Tasks : SendNoReply(t)
    \/ \E t \in Tasks : WsSend(t)
    \/ \E t \in Tasks : SendTimeout(t)
    \/ HeartbeatFire
    \/ HeartbeatWsSend
    \/ \E abnormal \in BOOLEAN : PeerClose(abnormal)
    \/ DisconnectBegin
    \/ DisconnectHeartbeat
    \/ DisconnectClose

SpecSilent == Init /\ [][NextSilent]_vars

NextCall ==
    \/ \E ok \in BOOLEAN : Connect(ok)
    \/ \E t \in Tasks : JoinChannel(t)
    \/ \E t \in Tasks : JoinCall(t)
    \/ \E t \in Tasks : LeaveCall(t)
    \/ \E t \in Tasks, event \in ControlEvents : Control(t, event)
    \/ \E t \in Tasks : SendMediaEvent(t)
    \/ \E t \in Tasks : WsSend(t)
    \/ \E t \in Tasks : SendReturn(t)
    \/ \E t \in Tasks : SendTimeout(t)
    \/ \E ref \in ReplyRefs, payload \in {"ok", "error"} : ReceiveReply(ref, payload)
    \/ ReceiveCallEnded
    \/ \E abnormal \in BOOLEAN : PeerClose(abnormal)
    \/ DisconnectBegin
    \/ DisconnectHeartbeat
    \/ DisconnectClose

\* a call session on a socket
SpecCall == Init /\ [][NextCall]_vars

\* the refs that replies to the requests of a teardown may carry
TeardownRefs == {Str(n) : n \in 1..(MaxRef + 2)}

NextTeardown ==
    \/ \E ok \in BOOLEAN : Connect(ok)
    \/ \E t \in Tasks : JoinChannel(t)
    \/ \E t \in Tasks : JoinCall(t)
    \/ \E t \in Tasks : LeaveCall(t)
    \/ \E t \in Tasks : LeaveChannel(t)
    \/ \E t \in Tasks : WsSend(t)
    \/ \E t \in Tasks : SendReturn(t)
    \/ \E t \in Tasks : SendTimeout(t)
    \/ \E ref \in TeardownRefs, payload \in {"ok", "error"} : ReceiveReply(ref, payload)
    \/ ReceiveCallEnded
    \/ \E abnormal \in BOOLEAN : PeerClose(abnormal)

\* a call session joined, used and closed
SpecTeardown == Init /\ [][NextTeardown]_vars

\* the operations that a closed facade is to refuse, on a call session
NextClosed ==
    \/ \E ok \in BOOLEAN : Connect(ok)
    \/ \E t \in Tasks : JoinChannel(t)
    \/ \E t \in Tasks : JoinCall(t)
    \/ \E t \in Tasks, event \in ControlEvents : Control(t, event)
    \/ \E t \in Tasks : SendMediaEvent(t)
    \/ \E t \in Tasks : WsSend(t)
    \/ \E t \in Tasks : SendReturn(t)
    \/ \E t \in Tasks : SendTimeout(t)
    \/ \E ref \in ReplyRefs, payload \in {"ok", "error"} : ReceiveReply(ref, payload)
    \/ \E abnormal \in BOOLEAN : PeerClose(abnormal)
    \/ DisconnectBegin
    \/ DisconnectHeartbeat
    \/ DisconnectClose

SpecClosed == Init /\ [][NextClosed]_vars

NextFacade ==
    \/ \E t \in Tasks : ClientConnect(t)
    \/ \E t \in Tasks, ok \in BOOLEAN : ClientConnectEnd(t, ok)
    \/ ClientDisconnect
    \/ \E t \in Tasks : Send(t)
    \/ \E t \in Tasks : WsSend(t)
    \/ \E t \in Tasks : SendReturn(t)
    \/ \E t \in Tasks : SendTimeout(t)
    \/ \E ref \in ReplyRefs, payload \in {"ok", "error"} : ReceiveReply(ref, payload)
    \/ \E abnormal \in BOOLEAN : PeerClose(abnormal)
    \/ DisconnectBegin
    \/ DisconnectHeartbeat
    \/ DisconnectClose

\* the facade: connect, use, disconnect
SpecFacade == Init /\ [][NextFacade]_vars

NextDispatch ==
    \/ \E ok \in BOOLEAN : Connect(ok)
    \/ \E event \in DispatchEvents, h \in Handlers : On(OtherTopic, event, h)
    \/ \E event \in DispatchEvents, h \in Handlers : Off(OtherTopic, event, h)
    \/ \E event \in DispatchEvents : OffAll(OtherTopic, event)
    \/ \E event \in DispatchEvents : ReceiveEvent(OtherTopic, event)
    \/ \E abnormal \in BOOLEAN : PeerClose(abnormal)
    \/ DisconnectBegin
    \/ DisconnectHeartbeat
    \/ DisconnectClose

\* the socket's event handlers, registered, removed and called
SpecDispatch == Init /\ [][NextDispatch]_vars

\* the socket shut down by disconnect() while requests, one-way sends, the
\* heartbeat and inbound frames are under way
NextShut ==
    \/ \E ok \in BOOLEAN : Connect(ok)
    \/ On(OtherTopic, "call_ended", "h1")
    \/ \E t \in Tasks : Send(t)
    \/ \E t \in Tasks : SendNoReply(t)
    \/ \E t \in Tasks : WsSend(t)
    \/ \E t \in Tasks : SendReturn(t)
    \/ \E t \in Tasks : SendTimeout(t)
    \/ HeartbeatFire
    \/ HeartbeatWsSend
    \/ \E ref \in ReplyRefs : ReceiveReply(ref, "ok")
    \/ ReceiveEvent(OtherTopic, "call_ended")
    \/ DisconnectBegin
    \/ DisconnectHeartbeat
    \/ DisconnectClose

SpecShut == Init /\ [][NextShut]_vars

Next ==
    \/ \E ok \in BOOLEAN : Connect(ok)
    \/ \E t \in Tasks : Send(t)
    \/ \E t \in Tasks : SendNoReply(t)
    \/ \E t \in Tasks : WsSend(t)
    \/ \E t \in Tasks : SendReturn(t)
    \/ \E t \in Tasks : SendTimeout(t)
    \/ HeartbeatFire
    \/ HeartbeatWsSend
    \/ \E ref \in ReplyRefs, payload \in ReplyPayloads : ReceiveReply(ref, payload)
    \/ \E abnormal \in BOOLEAN : PeerClose(abnormal)
    \/ DisconnectBegin
    \/ DisconnectHeartbeat
    \/ DisconnectClose

Spec == Init /\ [][Next]_vars

\* the simulator client
InitSim == impl = "sim" /\ InitAll /\ InitSimVars

TimerNames == {TimerIds[i] : i \in 1..Len(TimerIds)}
JobIds == Tasks \cup {CONN, CLOSER} \cup TimerNames

NextSim ==
    \/ \E topic \in SimTopics, params \in JoinParams : Subscribe(topic, params)
    \/ \E ok \in BOOLEAN : SimConnect(ok)
    \/ \E ok \in BOOLEAN : ConnectRetry(ok, MaxFailedSim)
    \/ \E t \in Tasks, topic \in SimTopics : PushWithBackpressure(t, topic)
    \/ \E k \in TimerNames : TimerFire(k)
    \/ \E id \in JobIds : JobGranted(id)
    \/ \E id \in JobIds : JobWsSend(id)
    \/ \E topic \in SimTopics, payload \in SimBPPayloads :
           SimReceiveBackpressure(topic, payload)
    \/ SimPeerClose
    \/ \E abnormal \in BOOLEAN : ReceiveClosed(abnormal)

SpecSim == InitSim /\ [][NextSim]_vars

\* the simulator client, its connection handling: several subscribed topics,
\* connection attempts that keep failing, one producer
Producers == {"u1"}

NextConn ==
    \/ \E topic \in JoinTopics, params \in JoinParams : Subscribe(topic, params)
    \/ \E ok \in BOOLEAN : SimConnect(ok)
    \/ \E ok \in BOOLEAN : ConnectRetry(ok, MaxFailed)
    \/ \E t \in Producers, topic \in SimTopics : PushWithBackpressure(t, topic)
    \/ \E k \in TimerNames : TimerFire(k)
    \/ \E id \in JobIds : JobGranted(id)
    \/ \E id \in JobIds : JobWsSend(id)
    \/ SimPeerClose
    \/ \E abnormal \in BOOLEAN : ReceiveClosed(abnormal)

SpecConn == InitSim /\ [][NextConn]_vars

\* the simulator client, its channel records: topics are subscribed to and
\* left while the client connects, loses the connection and connects again
NextSub ==
    \/ \E topic \in JoinTopics, params \in JoinParams : Subscribe(topic, params)
    \/ \E t \in Producers, topic \in JoinTopics : Unsubscribe(t, topic)
    \/ \E ok \in BOOLEAN : SimConnect(ok)
    \/ \E ok \in BOOLEAN : ConnectRetry(ok, MaxFailedSim)
    \/ \E id \in JobIds : JobGranted(id)
    \/ \E id \in JobIds : JobWsSend(id)
    \/ SimPeerClose
    \/ \E abnormal \in BOOLEAN : ReceiveClosed(abnormal)

SpecSub == InitSim /\ [][NextSub]_vars

\* the socket-level operations under the scheduling asyncio gives: a WebSocket
\* send that was started ends (it completes or raises), and a wait_for ends
\* (the future gets a result or the deadline passes)
SpecLive ==
    /\ Init /\ [][Next]_vars
    /\ \A t \in Tasks : WF_vars(WsSend(t))
    /\ \A t \in Tasks : WF_vars(SendReturn(t) \/ SendTimeout(t))
    /\ WF_vars(HeartbeatWsSend)

\* ============================================================ claims
RequestPaths == {"send", "join"}

C5_FlushEventBySize ==
    \A i \in 1..Len(wire) :
        wire[i].via \in {"add_to_batch", "flush_batch"} =>
            IF Len(wire[i].payload) = 1
            THEN wire[i].event = "measurement" /\ ~wire[i].array
            ELSE wire[i].event = "measurements_batch" /\ wire[i].array

\* C6 as stated: when the transport is lost, no awaiter is left pending
C6_LossFailsAwaiters ==
    [][(ws = "open" /\ ws' = "closed") =>
          \A ref \in DOMAIN pending_replies' : pending_replies'[ref] # "pending"]_vars

\* C7: when a phx_reply is handled, the awaiter registered and waiting under
\* the reply's ref, and no other, gets the reply's status; a reply whose ref
\* is not registered or whose awaiter is no longer waiting changes no state.
\* (A reply whose payload is no object resolves nothing either.)
C7_ReplyCorrelation ==
    [][\A ref \in ReplyRefs, payload \in ReplyPayloads :
          (connected /\ ReceiveReply(ref, payload)) =>
             IF ref \in DOMAIN pending_replies /\ pending_replies[ref] = "pending"
             THEN IF payload = "bad"
                  THEN pending_replies' = pending_replies /\ resolved' = resolved
                  ELSE /\ pending_replies' =
                              [pending_replies EXCEPT
                                  ![ref] = IF payload = "ok" THEN "ok" ELSE "error"]
                       /\ resolved' = Resolve(resolved, ref, "reply")
                       /\ UNCHANGED <<ws, connected, ref_counter, lock, receive_task,
                                      heartbeat_task, hb_ref, disc, pc, call, wire,
                                      awaiters>>
             ELSE UNCHANGED vars]_vars

\* C7 witness: two requests outstanding, the later one answered first
C7_Witness ==
    /\ Str(1) \in DOMAIN pending_replies /\ pending_replies[Str(1)] = "pending"
    /\ Str(2) \in DOMAIN pending_replies /\ pending_replies[Str(2)] = "error"
    /\ \A t \in Tasks : pc[t] = "awaiting"

IsSendCall(c) == c.op = "send"
SendOutcomes == {"reply_ok", "reply_error", "TimeoutError", "ConnectionClosed",
                 "ConnectionError"}

\* C8: every request/reply send terminates.  It returns the reply its future
\* was given, or raises TimeoutError with the timeout in milliseconds when the
\* deadline passes with no reply, or raises because the frame could not be
\* written; when the call has completed its ref is not in the reply registry.
C8_SendTerminates ==
    /\ [][\A t \in Tasks :
            /\ (IsSendCall(call[t]) /\ pc'[t] = "idle") =>
                  /\ call'[LAST].outcome \in SendOutcomes
                  /\ call[t].ref \notin DOMAIN pending_replies'
                  /\ (call'[LAST].outcome = "TimeoutError" =>
                         /\ call'[LAST].err_ms = call[t].timeout * 1000
                         /\ pending_replies[call[t].ref] = "pending")
                  /\ (call'[LAST].outcome \in {"reply_ok", "reply_error"} =>
                         call'[LAST].outcome = "reply_" \o pending_replies[call[t].ref])
                  /\ (call'[LAST].outcome = "ConnectionClosed" => pc[t] = "send_raw")
            /\ (\E timeout \in Timeouts :
                    StartSend(t, "send", OtherTopic, "request", timeout) /\ pc'[t] = "idle")
                  => /\ call'[LAST].outcome = "ConnectionError"
                     /\ Str(ref_counter') \notin DOMAIN pending_replies'
         ]_vars
    /\ \A t \in Tasks : (pc[t] # "idle") ~> (pc[t] = "idle")

\* C8 witness: a send that timed out after its 1 s timeout, reported as 1000 ms
C8_Witness ==
    /\ call[LAST].outcome = "TimeoutError" /\ call[LAST].err_ms = 1000
    /\ \A t \in Tasks : pc[t] = "idle"

\* the measurements carried by the measurement frames written for a topic, in
\* write order
RECURSIVE Carried(_, _)
Carried(frames, topic) ==
    IF frames = <<>> THEN <<>>
    ELSE LET f == Head(frames) IN
         (IF f.topic = topic /\ f.event \in {"measurement", "measurements_batch"}
          THEN f.payload ELSE <<>>) \o Carried(Tail(frames), topic)

\* the measurements enqueued so far, in enqueue order (they are numbered as
\* they are enqueued, and one stream takes them all)
Enqueued == [i \in 1..enq |-> i]

IsPrefix(s, t) == Len(s) <= Len(t) /\ \A i \in 1..Len(s) : s[i] = t[i]

\* C2 as stated: the measurements written for a stream, in write order, are a
\* prefix of the measurements enqueued, in enqueue order
C2_WrittenIsPrefix ==
    \A topic \in SimTopics : IsPrefix(Carried(wire, topic), Enqueued)

\* an enqueue on topic: the step of push_with_backpressure that appends
EnqueueOn(topic) == enq' = enq + 1 /\ \E t \in Tasks : PushWithBackpressure(t, topic)

\* C3 as stated: right after a push_with_backpressure call returns, the queue
\* is no longer than the batch size that was active when the call enqueued
C3_LengthWithinBatchSize ==
    [][/\ \A t \in Tasks :
            (pc[t] = "busy" /\ pc'[t] = "idle") =>
                Len(message_queues'[call[t].topic]) <= call[t].thr
       /\ \A topic \in SimTopics :
            (EnqueueOn(topic) /\ pc' = pc) =>
                Len(message_queues'[topic]) <= backpressure_configs[topic].batch_size
      ]_vars

\* C3 amended: an enqueue that makes the queue length reach or exceed the
\* active batch size drains the whole queue, the new measurement included,
\* within that same call and before any other task runs, and hands it to one
\* push; any other enqueue returns at once with the queue below that batch size.
\* A call that flushed returns when its push is over, and the queue then holds
\* what other producers enqueued meanwhile, whatever the earlier batch size.
C3_ThresholdDrainsQueue ==
    [][\A topic \in SimTopics :
          EnqueueOn(topic) =>
             LET queue == Append(message_queues[topic], enq')
                 started == {t \in DOMAIN jobs' \ DOMAIN jobs : jobs'[t].payload = queue}
             IN IF Len(queue) >= backpressure_configs[topic].batch_size
                THEN /\ message_queues'[topic] = <<>>
                     /\ Cardinality(started) <= 1
                     /\ \A t \in started : pc[t] = "idle" /\ pc'[t] = "busy"
                     /\ (started = {} => pc' = pc /\ ~(ws = "open" /\ connected))
                ELSE /\ message_queues'[topic] = queue
                     /\ Len(message_queues'[topic])
                            < backpressure_configs[topic].batch_size
                     /\ pc' = pc
      ]_vars

\* C3 witness: a call whose enqueue reached the batch size is writing the
\* whole queue of two, and the queue holds a later measurement
C3_Witness ==
    \E t \in Tasks :
        /\ t \in DOMAIN jobs /\ pc[t] = "busy" /\ call[t].reached
        /\ jobs[t].payload = <<1, 2>>
        /\ message_queues[call[t].topic] = <<3>>

\* C4 as stated: an enqueue that leaves the queue non-empty leaves a flush
\* timer armed (asleep, to fire) for the topic
C4_TimerArmed ==
    [][\A topic \in SimTopics :
          (EnqueueOn(topic) /\ message_queues'[topic] # <<>>) =>
              \E k \in DOMAIN timers' :
                  timers'[k].topic = topic /\ timers'[k].pc = "sleep"]_vars

\* the number a ref stands for
RECURSIVE Num(_)
Num(ref) == IF ref = <<>> THEN 0
            ELSE 10 * Num(SubSeq(ref, 1, Len(ref) - 1)) + ref[Len(ref)]

\* C9 as stated: within a connection the refs of the written frames increase
\* strictly, and the first ref on every connection is 1
C9_RefsCountFromOne ==
    \A j \in 1..Len(wire) :
        IF \E i \in 1..(j - 1) : wire[i].conn = wire[j].conn
        THEN \A i \in 1..(j - 1) :
                 wire[i].conn = wire[j].conn => Num(wire[i].ref) < Num(wire[j].ref)
        ELSE wire[j].ref = Str(1)

\* C10: for every topic at most one timer task is scheduled (created and not
\* done), at every moment
C10_OneTimerPerTopic ==
    \A topic \in SimTopics :
        Cardinality({k \in DOMAIN timers : timers[k].topic = topic}) <= 1

\* C10 witness: a second timer for the topic is asleep while the first, that
\* fired, has ended and two measurements wait in the queue
C10_Witness ==
    \E topic \in SimTopics, k \in DOMAIN timers :
        /\ timers[k].topic = topic /\ timers[k].pc = "sleep"
        /\ k # TimerIds[1]
        /\ Len(message_queues[topic]) >= 2

\* the phx_join frames written for a topic on connection c
JoinFrames(c, topic) ==
    {i \in 1..Len(wire) :
        wire[i].conn = c /\ wire[i].event = "phx_join" /\ wire[i].topic = topic}

\* the frame _join_channel writes for an entry of channels
JoinFrameOf(item, ref, c) ==
    Frame(item.topic, "phx_join", <<item.params>>, FALSE, ref, "join", c)

\* C11: when a connection is opened (the first or, after a transport loss, a
\* later one) a join is started for every remembered topic, in the order the
\* topics were recorded; every join whose write succeeds writes one phx_join
\* frame with the topic's recorded params; whether the write succeeds or fails
\* the loop goes on with the remaining topics; no topic gets two phx_join
\* frames on one connection, and while the connection stays up every topic
\* whose join is over has exactly one.
C11_RejoinAll ==
    /\ [](\A c \in 1..connects, topic \in JoinTopics :
              Cardinality(JoinFrames(c, topic)) <= 1)
    /\ []((conn.pc = "joining" /\ ws = "open") =>
              \A i \in 1..(Len(channels) - Len(conn.todo)) :
                  \E j \in JoinFrames(connects, channels[i].topic) :
                      wire[j].payload = <<channels[i].params>>)
    /\ [][/\ (connects' = connects + 1) =>
                /\ ws' = "open"
                /\ IF channels = <<>>
                   THEN conn'.pc = "idle" /\ receiving_task' = "running"
                   ELSE /\ conn'.pc = "joining" /\ conn'.todo = channels
                        /\ jobs'[CONN].kind = "join"
                        /\ jobs'[CONN].topic = channels[1].topic
          /\ JobWsSend(CONN) =>
                LET item == Head(conn.todo)
                    rest == Tail(conn.todo)
                IN /\ wire' = IF ws = "open"
                               THEN Append(wire, JoinFrameOf(item, jobs[CONN].ref,
                                                             connects))
                               ELSE wire
                   /\ IF rest = <<>>
                      THEN /\ conn'.pc = "idle" /\ receiving_task' = "running"
                           /\ ws = "open" =>
                                 \A i \in 1..Len(channels) :
                                     Cardinality(JoinFrames(connects, channels[i].topic))' = 1
                      ELSE /\ conn'.pc = "joining" /\ conn'.todo = rest
                           /\ jobs'[CONN].kind = "join"
                           /\ jobs'[CONN].topic = Head(rest).topic
      ]_vars

\* C11 witness: after a lost first connection a second one is open and both
\* remembered topics were joined again on it, each with its own params
C11_Witness ==
    /\ connects = 2 /\ ws = "open" /\ conn.pc = "idle" /\ Len(channels) = 2
    /\ \A i \in 1..2 :
           /\ JoinFrames(1, channels[i].topic) # {}
           /\ \E j \in JoinFrames(2, channels[i].topic) :
                  wire[j].payload = <<channels[i].params>>
    /\ channels[1].params # channels[2].params

\* C12 as stated: after max_reconnect_attempts failed connection attempts in a
\* row no further attempt is made
C12_AttemptsCapped ==
    [][(conn.pc = "backoff" /\ conn.failed >= max_reconnect_attempts) =>
          (conn' = conn /\ connects' = connects)]_vars

\* the enqueue numbers of the measurements in a buffer or payload
Numbers(measurements) == {measurements[i].n : i \in 1..Len(measurements)}

\* the measurements of the stream that were written to the transport
Written ==
    UNION {Numbers(wire[i].payload) :
              i \in {j \in 1..Len(wire) :
                        /\ wire[j].topic = StreamTopic
                        /\ wire[j].event \in {"measurement", "measurements_batch"}}}

\* the measurements taken out of the buffer by a flush whose write is not over
InFlight ==
    UNION {Numbers(call[t].payload) : t \in {u \in Tasks : pc[u] = "send_raw"}}

\* C13 as stated: a measurement accepted into the batch buffer is in the
\* buffer, or in a flush that is being written, or was written to the
\* transport; no flush discards it
C13_BufferedNotLost ==
    \A n \in 1..enq : n \in Numbers(batch_buffer) \cup InFlight \cup Written

\* C14 as stated: the threshold an add_to_batch compares the buffer length
\* with is the batch size of the backpressure state in force, that of the last
\* backpressure_config handled; and a frame written by an add_to_batch that
\* met threshold 1 is a `measurement` frame carrying that one measurement
C14_NewSizeIsThreshold ==
    [][/\ (enq' = enq + 1) =>
             IF Len(batch_buffer) + 1 >= backpressure.recommended_batch_size
             THEN batch_buffer' = <<>>
             ELSE Len(batch_buffer') = Len(batch_buffer) + 1
       /\ \A t \in Tasks :
             (/\ pc[t] = "send_raw" /\ call[t].op = "add_to_batch"
              /\ call[t].thr = 1 /\ Len(wire') = Len(wire) + 1) =>
                 LET frame == wire'[Len(wire')] IN
                 /\ frame.event = "measurement"
                 /\ frame.payload = call[t].payload
                 /\ Len(frame.payload) = 1
      ]_vars

\* C15 as stated: the batch size in force is within 1..10000 and the batch
\* window in force within 1..60000, whatever the server recommended
C15_SizeAndWindowClamped ==
    /\ backpressure.recommended_batch_size \in 1..10000
    /\ backpressure.recommended_batch_window \in 1..60000
    /\ \A topic \in SimTopics :
           /\ backpressure_configs[topic].batch_size \in 1..10000
           /\ backpressure_configs[topic].batch_window_ms \in 1..60000

\* C16 as stated: as long as no connection was opened, so that no
\* backpressure_config can have been received, the backpressure state is
\* attention level none, window 5000 ms, batch size 20
C16_DefaultsWhenSilent ==
    /\ receive_task = "none" =>
           /\ backpressure.attention_level = "none"
           /\ backpressure.recommended_batch_window = 5000
           /\ backpressure.recommended_batch_size = 20
    /\ receiving_task = "none" =>
           \A topic \in SimTopics :
               /\ backpressure_configs[topic].attention_level = "none"
               /\ backpressure_configs[topic].batch_window_ms = 5000
               /\ backpressure_configs[topic].batch_size = 20

\* a payload that carries an attention level and nothing else
LevelOnly(payload) ==
    /\ payload.object
    /\ payload.attention_level # <<>>
    /\ payload.recommended_batch_window = <<>>
    /\ payload.recommended_batch_size = <<>>

\* C17 as stated: a backpressure_config that carries only an attention level
\* sets the window and the batch size to the canonical values of that level
C17_CanonicalForLevel ==
    [][\A payload \in BPPayloads :
          (LevelOnly(payload) /\ connected /\ ReceiveBackpressure(payload)) =>
              LET level == payload.attention_level[1] IN
              /\ backpressure'.attention_level = level
              /\ backpressure'.recommended_batch_window = recommended_batch_window(level)
              /\ backpressure'.recommended_batch_size = recommended_batch_size(level)
      ]_vars

\* C18 as stated: the attention level of every backpressure state is one of
\* none, low, medium, high
C18_LevelIsKnown ==
    /\ backpressure.attention_level \in AttentionLevels
    /\ \A topic \in SimTopics :
           backpressure_configs[topic].attention_level \in AttentionLevels

C20_InvalidIdRejected ==
    /\ [](\A i \in 1..Len(batch_buffer) : IdBody(batch_buffer[i].attribute_id))
    /\ [][\A t \in Tasks, attribute_id \in AttributeIds :
             (/\ is_active /\ ~IdBody(attribute_id)
              /\ \/ AddToBatch(t, attribute_id)
                 \/ SendMeasurement(t, attribute_id)) =>
                 /\ call'[LAST].outcome = "InvalidAttributeIdError"
                 /\ wire' = wire /\ batch_buffer' = batch_buffer /\ pc' = pc
         ]_vars

\* ------------------------------------------------------------ C21
\* a join whose reply, not ok, is there for it to return with
JoinAnsweredError(t) ==
    /\ pc[t] = "awaiting" /\ call[t].op = "join"
    /\ call[t].ref \in DOMAIN pending_replies
    /\ pending_replies[call[t].ref] = "error"

\* C21: a join that the server answers with status error fails with
\* ChannelJoinError and leaves the stream not joined; a stream that is not
\* joined accepts no measurement.
C21_JoinErrorIsChannelJoinError ==
    /\ [][\A t \in Tasks :
            JoinAnsweredError(t) /\ call'[t] = NoCall
                => call'[LAST].outcome = "ChannelJoinError" /\ ~joined']_vars
    /\ [][~joined => enq' = enq]_vars

\* ------------------------------------------------------------ C22
\* C22: an inbound frame that is no reply is delivered to every handler
\* registered for its topic and event, in the order of registration, and to no
\* other; a handler that raises stops neither the handlers after it nor the
\* receive loop.
C22_DeliveredToEveryHandler ==
    [][delivered' # delivered
          => /\ delivered'.to = HandlersOf(delivered'.key)
             /\ connected' = connected
             /\ receive_task' = receive_task]_vars

\* ------------------------------------------------------------ C23, C24
LeaveOps == {"leave", "phx_leave"}

\* C23: on a stream that is not joined (one that a first leave has left) a
\* leave starts no flush and no phx_leave request; it returns at once, writes
\* no frame and changes nothing of the stream or the socket.
C23_SecondLeaveIsNoOp ==
    [][\A t \in Tasks :
          ~joined /\ pc[t] = "idle"
             => /\ call'[t].op \notin LeaveOps
                /\ (call'[LAST] # call[LAST] /\ call'[LAST].outcome = "not_joined"
                      => UNCHANGED <<sdkVars, pc, wire, enq, awaiters, resolved>>)]_vars

\* a first leave has written its phx_leave and left the stream, and the leave
\* after it has returned
C23_Witness ==
    /\ ~joined
    /\ \E i \in DOMAIN wire : wire[i].event = "phx_leave"
    /\ call[LAST].outcome = "not_joined"

\* C24: a leave comes to its phx_leave only with the buffer written (or with
\* nothing in it), and when a leave that has flushed measurements completes the
\* buffer is empty.
C24_FlushedAndEmptyAfterLeave ==
    /\ [][\A t \in Tasks :
            call'[t].op = "phx_leave" /\ call[t].op # "phx_leave"
               => \/ batch_buffer = <<>> /\ pc[t] # "send_raw"
                  \/ /\ call[t].op = "leave" /\ pc[t] = "send_raw"
                     /\ call[t].payload # <<>>
                     /\ wire' = Append(wire, CallFrame(call[t]))]_vars
    /\ [][\A t \in Tasks :
            call[t].op = "phx_leave" /\ call[t].flushed # <<>> /\ ~joined' /\ joined
               => batch_buffer' = <<>>]_vars

\* ------------------------------------------------------------ C27
\* the heartbeat frames written so far
HeartbeatsWritten == Cardinality({i \in DOMAIN wire : wire[i].event = "heartbeat"})

\* C27: with a server that never replies, once the heartbeat loop has written
\* its third heartbeat (two intervals after the first, which is still
\* unanswered) and gone back to sleep, the socket no longer reports itself
\* connected.
C27_UnansweredHeartbeatIsLoss ==
    HeartbeatsWritten >= 3 /\ heartbeat_task = "sleep" => ~is_connected

\* ------------------------------------------------------------ C26
\* C26: once disconnect has completed, an operation on a session whose channel
\* is joined (join_call, send_media_event, toggle_audio, toggle_video,
\* set_quality) fails with DisconnectedError and writes no frame.
C26_ClosedFacadeRefuses ==
    [][disc = "done" /\ session.joined /\ pc' = pc /\ call'[LAST] # call[LAST]
          => call'[LAST].outcome = "DisconnectedError" /\ wire' = wire]_vars

\* ------------------------------------------------------------ C28
RejectedOutcomes == {"SensoctoError(Channel not joined)", "SensoctoError(Not in call)"}

\* C28: outside a call no media event and no toggle_audio, toggle_video or
\* set_quality request is started, and on a channel that is not joined no
\* join_call; the operation refused fails with SensoctoError, writes no frame
\* and changes nothing of the session or the socket.
C28_OnlyInRequiredState ==
    [][\A t \in Tasks :
          pc[t] = "idle"
             => /\ (~session.in_call => call'[t].op \notin {"control", "send_no_reply"})
                /\ (~session.joined => call'[t].op # "join_call")
                /\ (call'[LAST] # call[LAST] /\ call'[LAST].outcome \in RejectedOutcomes
                      => UNCHANGED <<sdkVars, pc, wire, enq, awaiters, resolved>>)]_vars

\* on a joined channel, out of a call that was joined, an operation was refused
C28_Witness ==
    /\ session.joined /\ ~session.in_call
    /\ \E i \in DOMAIN wire : wire[i].event = "join_call"
    /\ call[LAST].outcome = "SensoctoError(Not in call)"

\* ------------------------------------------------------------ C29
\* C29: when the session changes without any call returning (a call_ended has
\* been dispatched to it), it is out of the call, its endpoint_id is cleared
\* and its channel is joined as before.
C29_CallEndedClears ==
    [][session' # session /\ call' = call
          => /\ ~session'.in_call
             /\ session'.endpoint_id = ""
             /\ session'.joined = session.joined]_vars

\* ------------------------------------------------------------ C30
SensoctoErrors ==
    RejectedOutcomes \cup {"SensoctoError", "SensoctoError(Failed to join channel)",
                           "SensoctoError(Failed to join call)"}

\* C30: a toggle_audio, toggle_video or set_quality that the server answers
\* with an error reply fails with SensoctoError.
C30_ControlErrorRaises ==
    [][\A t \in Tasks :
          /\ pc[t] = "awaiting" /\ call[t].op = "control"
          /\ call[t].ref \in DOMAIN pending_replies
          /\ pending_replies[call[t].ref] = "error"
          /\ call'[t] = NoCall
          => call'[LAST].outcome \in SensoctoErrors]_vars

\* ------------------------------------------------------------ C25
\* the edges the facade's state may take; user disconnect leads to
\* Disconnected from anywhere, a failing connect leads to Error
StateEdges ==
    {<<"disconnected", "connecting">>, <<"connecting", "connected">>,
     <<"connected", "reconnecting">>, <<"reconnecting", "connected">>,
     <<"connecting", "error">>, <<"connected", "error">>}
      \cup {<<st, "disconnected">> : st \in {"connecting", "connected", "reconnecting",
                                              "error"}}

\* C25: the facade's state changes only along these edges; in particular
\* Error is left only for Disconnected.
C25_StateEdges ==
    [][facade'.state # facade.state
          => <<facade.state, facade'.state>> \in StateEdges]_vars

\* ------------------------------------------------------------ C31
\* C31: a leave_channel of a session in a call sends leave_call first and
\* comes to its phx_leave only from that leave_call having been written and
\* answered; when it completes the session is neither in a call nor joined and
\* has no endpoint_id.
C31_CloseLeavesCallFirst ==
    /\ [][\A t \in Tasks :
            /\ (pc[t] = "idle" /\ session.in_call => call'[t].op # "leave_channel")
            /\ (call'[t].op = "close_leave_channel" /\ call[t].op # "close_leave_channel"
                  => /\ call[t].op = "close_leave_call" /\ pc[t] = "awaiting"
                     /\ \E i \in DOMAIN wire :
                           wire[i].event = "leave_call" /\ wire[i].ref = call[t].ref)]_vars
    /\ [][\A t \in Tasks :
            call[t].op = "close_leave_channel" /\ pc[t] = "awaiting"
              /\ call'[t] = NoCall /\ call'[LAST].outcome = "ok"
               => session' = NoSession]_vars

\* ------------------------------------------------------------ C38
\* C38: a session in a call is in its channel.
C38_InCallImpliesJoined == session.in_call => session.joined

\* ------------------------------------------------------------ C32
\* the calls that are inside the send of the WebSocket
InWsSend == {id \in DOMAIN jobs : jobs[id].pc = "ws_send"}

\* C32: at most one call is inside the send of the WebSocket, and it is the
\* holder of the lock; every step that writes appends one frame, that of the
\* holder.
C32_WritesExclusive ==
    /\ [](Cardinality(InWsSend) <= 1 /\ \A id \in InWsSend : lock.holder = id)
    /\ [][wire' # wire
            => /\ lock.holder \in InWsSend
               /\ wire' = Append(wire, JobFrame(jobs[lock.holder]))]_vars

\* one call is inside the send while another waits for the lock
C32_Witness ==
    /\ InWsSend # {}
    /\ \E id \in DOMAIN jobs : jobs[id].pc = "lock_wait"

\* ------------------------------------------------------------ C33
\* C33: no task holds the batch lock while it waits for the socket lock or is
\* inside the send of the WebSocket.
C33_BatchLockNotHeldAcrossWrite ==
    \A t \in Tasks : pc[t] = "send_raw" => batch_lock.holder # t

\* ------------------------------------------------------------ C39
MeasurementEvents == {"measurement", "measurements_batch"}

\* C39: after a phx_leave frame of the stream's topic no measurement or
\* measurements_batch frame of that topic is written, unless the stream has
\* been joined again in between.
C39_NoMeasurementAfterLeave ==
    \A i, j \in DOMAIN wire :
        /\ i < j
        /\ wire[i].topic = StreamTopic /\ wire[i].event = "phx_leave"
        /\ wire[j].topic = StreamTopic /\ wire[j].event \in MeasurementEvents
        => \E k \in DOMAIN wire : i < k /\ k < j /\ wire[k].event = "phx_join"

C35_UndecodableFrameIsDiscarded ==
    [][receive_task = "running" /\ connected /\ receive_task' = "done"
          => ws' = "closed"]_vars

\* ------------------------------------------------------------ C36
\* C36: once disconnect has returned, no request is waiting in the reply
\* registry and the heartbeat task neither sleeps nor writes.
C36_ShutdownCancelsEverything ==
    disc = "done" =>
        /\ \A ref \in DOMAIN pending_replies : ~FutureWaiting(ref)
        /\ heartbeat_task \notin {"sleep", "send_raw"}

\* ------------------------------------------------------------ C37
LastFrame(w) == w[Len(w)]

\* C37: subscribe writes no frame and changes nothing for a topic already
\* recorded; a completed unsubscribe leaves the topic without a record; and a connection
\* opened afterwards joins only topics recorded when it is opened: the joins
\* it plans are records of that moment, and every phx_join written is the next
\* planned one, on that connection.
C37_SubscribeRecordsLeaveForgets ==
    /\ [][\A topic \in JoinTopics, params \in JoinParams :
             Subscribe(topic, params)
                => /\ wire' = wire
                   /\ (Recorded(topic) => channels' = channels)
                   /\ \E i \in 1..Len(channels') : channels'[i].topic = topic]_vars
    /\ [][\A t \in Producers :
             call[t].op = "unsubscribe" /\ call'[t].op # "unsubscribe"
                => \A i \in 1..Len(channels') : channels'[i].topic # call[t].topic]_vars
    /\ [][\A t \in Producers, topic \in JoinTopics :
             Unsubscribe(t, topic) /\ pc'[t] = "idle"
                => \A i \in 1..Len(channels') : channels'[i].topic # topic]_vars
    /\ [][connects' # connects
             => \A i \in 1..Len(conn'.todo) :
                   \E j \in 1..Len(channels) : channels[j] = conn'.todo[i]]_vars
    /\ [][wire' # wire /\ LastFrame(wire').event = "phx_join"
             => /\ conn.todo # <<>>
                /\ LastFrame(wire').topic = Head(conn.todo).topic
                /\ LastFrame(wire').conn = connects]_vars

\* a topic was joined on the first connection and left; the second connection
\* has joined the other topic and is through with its joins
C37_Witness ==
    /\ connects = 2 /\ conn.pc = "idle" /\ receiving_task = "running"
    /\ ~Recorded("sensor_data:s1") /\ Recorded("sensor_data:s2")
    /\ \E i, j, k \in DOMAIN wire :
          /\ i < j /\ j < k
          /\ wire[i].event = "phx_join" /\ wire[i].topic = "sensor_data:s1"
          /\ wire[i].conn = 1
          /\ wire[j].event = "phx_leave" /\ wire[j].topic = "sensor_data:s1"
          /\ wire[k].event = "phx_join" /\ wire[k].topic = "sensor_data:s2"
          /\ wire[k].conn = 2
    /\ \A i \in DOMAIN wire :
          wire[i].topic = "sensor_data:s1" => wire[i].conn = 1

\* ------------------------------------------------------------ C40
\* C40: once disconnect() has returned, neither background task runs, no step
\* writes a frame, calls a handler or resolves a waiting request with a reply,
\* and a send or send_no_reply started then ends at once with ConnectionError.
C40_QuietAfterDisconnect ==
    /\ [](disc = "done"
            => /\ receive_task # "running"
               /\ heartbeat_task \notin {"sleep", "send_raw"})
    /\ [][disc = "done"
            => /\ wire' = wire
               /\ delivered' = delivered
               /\ \A ref \in DOMAIN pending_replies \cap DOMAIN pending_replies' :
                     FutureWaiting(ref) => pending_replies'[ref] = "pending"
               /\ \A t \in Tasks : pc[t] = "idle" => pc'[t] = "idle"]_vars
    /\ [][disc = "done" /\ ref_counter' # ref_counter
            => call'[LAST].outcome = "ConnectionError"]_vars

\* disconnect has returned on a socket that wrote frames and has a handler; a
\* send that was waiting for the socket lock was left behind, and a send
\* started afterwards has failed
C40_Witness ==
    /\ disc = "done" /\ wire # <<>>
    /\ HandlersOf(HandlerKey(OtherTopic, "call_ended")) # <<>>
    /\ delivered.n > 0
    /\ call[LAST].outcome = "ConnectionError"
====
